---- MODULE Spec2Model ----
(***************************************************************************)
(* A model of libpdf (useblocks/libpdf): catalog resolution, chapter       *)
(* numbering, header/footer detection, link extraction, the assembly of    *)
(* the document tree with the targets of the links, and repeated calls of  *)
(* load().  Every component has its own variables and its own              *)
(* specification; the variables of the other components stay idle.         *)
(*                                                                         *)
(* Strings are sequences of one-character strings, Python's None is the    *)
(* number 0 where an object, a page or an index is meant.                  *)
(***************************************************************************)
EXTENDS Integers, Sequences, FiniteSets, TLC

VARIABLES
    \* ---- catalog.chapter_number_giver
    outline_src,          \* the outline as resolve_outline built it
    chapters_in_outline,  \* the same list after chapter_number_giver
    cng_pc,               \* "idle" | "start" | "done"
    \* ---- extract.smart_page_crop_header_footer
    hf_pdf,               \* [pages, height]: len(pdf.pages), pdf.pages[0].mediabox[3]
    hf_elements,          \* the element list handed to the first application
    hf_run1,              \* what the first application computed
    hf_run2,              \* what the application to its own output computed
    hf_pc,                \* "idle" | "start" | "once" | "twice"
    \* ---- textbox.extract_linked_chars
    lk_textbox,           \* the lines of the LTTextBox, each a list of LTChar / LTAnno
    lk_annos,             \* catalog['annos'][page_number]['annotation']
    lk_links,             \* the Links extract_linked_chars returned
    lk_error,             \* "none" | "ValueError"
    lk_pc,                \* "idle" | "start" | "done"
    \* ---- catalog.get_outline and textbox.render_chapters
    ol_pdf,               \* the outline items of the PDF: the chain of /First and /Next
    ol_pages,             \* the numbers of the extracted pages
    ol_boxes,             \* page -> number of LTTextBoxes left on it
    ol_outline,           \* catalog['outline']: [present, content]
    ol_chapters,          \* chapter_list of render_chapters
    ol_error,             \* "none" | "IndexError"
    ol_pc,                \* "idle" | "start" | "catalog" | "done" | "failed"
    \* ---- extract.extract: the elements, their tree and the link targets
    as_doc,               \* the objects of the PDF in reading order
    as_outline,           \* catalog['outline']
    as_elems,             \* the Element objects by identity
    as_lists,             \* figure_list, table_list, paragraph_list, chapter_list,
                          \* and b_positions of the pages
    as_root,              \* Root.content
    as_error,             \* "none" | "ValueError" | "RecursionError"
    as_pc,                \* "idle" | "start" | "extracted" | "mapped" | "done" | "failed"
    \* ---- core.main, called several times in one process
    PAGE_CROP_MARGINS,    \* the dict of the module parameters
    ld_pdf,               \* the text boxes of the page of the PDF
    ld_page_crop,         \* the argument page_crop of the last call
    ld_result,            \* what the last call returned
    ld_calls,             \* the number of calls made, -1 when the component is idle
    \* ---- extract.extract_figures and textbox.ghost_chapter_position_generator
    fg_figures,           \* page_crop.figures of one page
    fg_filtered,          \* what check_and_filter_figures returned
    fg_positions,         \* the Positions of the Figures of the page
    fg_jump,              \* chapter['position'] of an outline entry without text box
    fg_ghost,             \* the Position of its ghost chapter
    fg_pc,                \* "idle" | "start" | "figures" | "done"
    \* ---- textbox.extract_lt_textboxes
    tb_lt_textboxes,      \* the LTTextBoxes of the layout of one page
    tb_elements,          \* the Positions of the tables, figures and rects of the page
    tb_filtered,          \* the boxes extract_lt_textboxes returned for the page
    tb_pc,                \* "idle" | "start" | "done"
    \* ---- tables.extract_cells and models.Table
    tbl_rows,             \* table.rows of the table finder: per row its cells, None for a merged one
    tbl_cells,            \* Table.cells
    tbl_pc,               \* "idle" | "start" | "done"
    \* ---- core.main and the page range of extract.extract
    pg_page_range,        \* the page range string, '' when none is given
    pg_pdf_pages,         \* len(pdf.pages) of the opened PDF
    pg_result,            \* how the call ended and the pages it extracted
    pg_pc,                \* "idle" | "start" | "done"
    \* ---- catalog.extract_catalog: the keys /A and /Dest
    ct_annots,            \* the link annotations of the page, in order
    ct_outline_objs,      \* the outline nodes, a chain of /Next
    ct_no_annotations,    \* the flag no_annotations
    ct_annos,             \* the annotation records, by the number of their annotation
    ct_outline,           \* the outline entries, by the number of their node
    ct_error,             \* "none" or the exception extract_catalog ended with
    ct_pc,                \* "idle" | "start" | "done"
    \* ---- process.map_elements_outline on headlines away from their jump points
    fl_elems,             \* the Element objects, an Element known by its index
    fl_outline,           \* outline_dict['content']
    fl_in_outline,        \* elements_in_outline as handed to fill_elements_content
    fl_above_outline,     \* elements_above_outline at that point
    fl_nested,            \* nested_elements
    fl_error,             \* "none" or the exception map_elements_outline ended with
    fl_pc,                \* "idle" | "start" | "done"
    \* ---- textbox.similarity_referee
    sr_similarity,        \* similarity_lt_textboxes: per box its title, number, content ratio
    sr_lt_textboxes,      \* lt_textboxes_in_rect: per box x0, y1 and whether its text is a number
    sr_virtual,           \* 'virt.' in chapter['number']
    sr_winners,           \* the winners, by their index in lt_textboxes_in_rect
    sr_pc,                \* "idle" | "start" | "done"
    \* ---- extract.check_false_positive_header_footer, call by call
    p2_pdf,               \* the PDF: its number of pages
    p2_elements_list,     \* elements_list of the call that runs, or the list returned
    p2_rejected,          \* the call before this one rejected its minimum and called again
    p2_header_low_pos,    \* header_low_pos of that call
    p2_pc,                \* "idle" | "call" | "returned"
    \* ---- textbox.render_link, the jump target
    rl_anno,              \* the annotation record of the catalog
    rl_dests,             \* catalog['dests']: [present, table]
    rl_pos_target,        \* the pos_target of the Link
    rl_error,             \* "none" | "KeyError"
    rl_pc,                \* "start" | "done" ("idle" in the other specifications)
    \* ---- catalog.get_named_destination, resolve_name_obj
    nt_tree,              \* the name tree pdf_catalog['Names']['Dests'], resolved
    nt_level,             \* name_tree_kids of the call of resolve_name_obj that runs
    nt_calls,             \* the calls of resolve_name_obj so far
    nt_named,             \* named_destination: [keys, value]
    nt_error,             \* "none" | "KeyError" | "RecursionError"
    nt_pc,                \* "idle" | "start" | "resolve" | "flat" | "done" | "error"
    \* ---- extract(): smart page crop, then libpdf_target_explorer
    tg_pdf,               \* [pages, height] of the PDF
    tg_paragraph_list,    \* paragraph_list as extract_paragraphs_chapters returned it
    tg_link,              \* the one link: [holder, pos_target], holder 0 for no link
    tg_content,           \* Root.content: paragraph_list after the smart page crop
    tg_target,            \* libpdf_target of the link
    tg_pc,                \* "idle" | "start" | "cropped" | "done"
    \* ---- extract() of a page range with annotations
    an_pdf,               \* the number of pages of the PDF
    an_pages,             \* the parameter pages of extract, <<>> for all pages
    an_annots,            \* the pages that have a link annotation
    an_boxes,             \* the pages that have a text box
    an_annos,             \* catalog['annos']: the annotations under their keys
    an_paragraphs,        \* paragraph_list: [page, links]
    an_pc                 \* "idle" | "start" | "catalog" | "done"

numVars == <<outline_src, chapters_in_outline, cng_pc>>
hfVars == <<hf_pdf, hf_elements, hf_run1, hf_run2, hf_pc>>

linkVars == <<lk_textbox, lk_annos, lk_links, lk_error, lk_pc>>

olVars == <<ol_pdf, ol_pages, ol_boxes, ol_outline, ol_chapters, ol_error, ol_pc>>

asVars == <<as_doc, as_outline, as_elems, as_lists, as_root, as_error, as_pc>>

loadVars == <<PAGE_CROP_MARGINS, ld_pdf, ld_page_crop, ld_result, ld_calls>>

figVars == <<fg_figures, fg_filtered, fg_positions, fg_jump, fg_ghost, fg_pc>>

tbVars == <<tb_lt_textboxes, tb_elements, tb_filtered, tb_pc>>

tblVars == <<tbl_rows, tbl_cells, tbl_pc>>

pgVars == <<pg_page_range, pg_pdf_pages, pg_result, pg_pc>>

ctVars == <<ct_annots, ct_outline_objs, ct_no_annotations, ct_annos, ct_outline,
           ct_error, ct_pc>>

flVars == <<fl_elems, fl_outline, fl_in_outline, fl_above_outline, fl_nested, fl_error,
           fl_pc>>

srVars == <<sr_similarity, sr_lt_textboxes, sr_virtual, sr_winners, sr_pc>>

p2Vars == <<p2_pdf, p2_elements_list, p2_rejected, p2_header_low_pos, p2_pc>>

rlVars == <<rl_anno, rl_dests, rl_pos_target, rl_error, rl_pc>>

ntVars == <<nt_tree, nt_level, nt_calls, nt_named, nt_error, nt_pc>>

tgVars == <<tg_pdf, tg_paragraph_list, tg_link, tg_content, tg_target, tg_pc>>

anVars == <<an_pdf, an_pages, an_annots, an_boxes, an_annos, an_paragraphs, an_pc>>

vars == <<numVars, hfVars, linkVars, olVars, asVars, loadVars, figVars, tbVars, tblVars,
          pgVars, ctVars, flVars, srVars, p2Vars,
          rlVars,
          ntVars,
          tgVars,
          anVars>>

\* what the actions of one component leave alone
numOthers == <<hfVars, linkVars, olVars, asVars, loadVars, figVars, tbVars, tblVars, pgVars, ctVars, flVars, srVars, p2Vars,
             rlVars,
             ntVars,
             tgVars,
             anVars>>
hfOthers == <<numVars, linkVars, olVars, asVars, loadVars, figVars, tbVars, tblVars, pgVars, ctVars, flVars, srVars, p2Vars,
             rlVars,
             ntVars,
             tgVars,
             anVars>>
linkOthers == <<numVars, hfVars, olVars, asVars, loadVars, figVars, tbVars, tblVars, pgVars, ctVars, flVars, srVars, p2Vars,
             rlVars,
             ntVars,
             tgVars,
             anVars>>
olOthers == <<numVars, hfVars, linkVars, asVars, loadVars, figVars, tbVars, tblVars, pgVars, ctVars, flVars, srVars, p2Vars,
             rlVars,
             ntVars,
             tgVars,
             anVars>>
asOthers == <<numVars, hfVars, linkVars, olVars, loadVars, figVars, tbVars, tblVars, pgVars, ctVars, flVars, srVars, p2Vars,
             rlVars,
             ntVars,
             tgVars,
             anVars>>
loadOthers == <<numVars, hfVars, linkVars, olVars, asVars, figVars, tbVars, tblVars, pgVars, ctVars, flVars, srVars, p2Vars,
             rlVars,
             ntVars,
             tgVars,
             anVars>>
figOthers == <<numVars, hfVars, linkVars, olVars, asVars, loadVars, tbVars, tblVars, pgVars, ctVars, flVars, srVars, p2Vars,
             rlVars,
             ntVars,
             tgVars,
             anVars>>
tbOthers == <<numVars, hfVars, linkVars, olVars, asVars, loadVars, figVars, tblVars, pgVars, ctVars, flVars, srVars, p2Vars,
             rlVars,
             ntVars,
             tgVars,
             anVars>>
tblOthers == <<numVars, hfVars, linkVars, olVars, asVars, loadVars, figVars, tbVars, pgVars, ctVars, flVars, srVars, p2Vars,
             rlVars,
             ntVars,
             tgVars,
             anVars>>
pgOthers == <<numVars, hfVars, linkVars, olVars, asVars, loadVars, figVars, tbVars, tblVars, ctVars, flVars, srVars, p2Vars,
             rlVars,
             ntVars,
             tgVars,
             anVars>>
ctOthers == <<numVars, hfVars, linkVars, olVars, asVars, loadVars, figVars, tbVars, tblVars, pgVars, flVars, srVars, p2Vars,
             rlVars,
             ntVars,
             tgVars,
             anVars>>
flOthers == <<numVars, hfVars, linkVars, olVars, asVars, loadVars, figVars, tbVars, tblVars, pgVars,
             ctVars, srVars, p2Vars,
             rlVars,
             ntVars,
             tgVars,
             anVars>>
srOthers == <<numVars, hfVars, linkVars, olVars, asVars, loadVars, figVars, tbVars, tblVars, pgVars,
             ctVars, flVars, p2Vars,
             rlVars,
             ntVars,
             tgVars,
             anVars>>
rlOthers == <<numVars, hfVars, linkVars, olVars, asVars, loadVars,
             figVars, tbVars, tblVars, pgVars, ctVars, flVars, srVars, p2Vars,
             ntVars,
             tgVars,
             anVars>>
p2Others == <<numVars, hfVars, linkVars, olVars, asVars, loadVars, figVars, tbVars, tblVars, pgVars,
             ctVars, flVars, srVars,
             rlVars,
             ntVars,
             tgVars,
             anVars>>
tgOthers == <<numVars, hfVars, linkVars, olVars, asVars, loadVars,
             figVars, tbVars, tblVars, pgVars, ctVars, flVars, srVars, p2Vars,
             rlVars, ntVars,
             anVars>>
ntOthers == <<numVars, hfVars, linkVars, olVars, asVars, loadVars,
             figVars, tbVars, tblVars, pgVars, ctVars, flVars, srVars, p2Vars,
             rlVars,
             tgVars,
             anVars>>
anOthers == <<numVars, hfVars, linkVars, olVars, asVars, loadVars,
             figVars, tbVars, tblVars, pgVars, ctVars, flVars, srVars, p2Vars,
             rlVars, ntVars, tgVars>>

(***************************************************************************)
(* Bounds of the model.                                                    *)
(***************************************************************************)
MaxNodes == 4        \* outline entries of one outline
MaxTitleLen == 4     \* characters of an outline title
MaxHFPages == 4      \* pages of the PDF handed to the header/footer detection
MaxHFElements == 4   \* elements handed to the header/footer detection
MaxObjs == 4         \* LTChar and LTAnno objects of one text box
MaxOutlineItems == 3 \* outline items of the PDF catalog
MaxItems == 4        \* figures, tables, text boxes and headlines of one document
MaxLoads == 3        \* calls of load() in one process
MaxFigures == 3      \* figures of one page
MaxTextBoxes == 2    \* LTTextBoxes of one page
MaxTableRows == 3    \* rows of one table
MaxTableCols == 3    \* cells of one row, merged ones included
MaxRangeLen == 3     \* characters of a page range string
MaxPdfPages == 2     \* pages of the PDF of a page range
MaxCatNodes == 2     \* link annotations of a page, and nodes of an outline
MaxFillElems == 4    \* elements handed to map_elements_outline
MaxSimBoxes == 2     \* text boxes in the window of one outline entry

(***************************************************************************)
(* Python string helpers.                                                  *)
(***************************************************************************)
Whitespace == {" ", "\t", "\n", "\r"}

RECURSIVE lstrip(_)
lstrip(s) == IF s # <<>> /\ Head(s) \in Whitespace THEN lstrip(Tail(s)) ELSE s

RECURSIVE rstrip(_)
rstrip(s) ==
    IF s # <<>> /\ s[Len(s)] \in Whitespace
    THEN rstrip(SubSeq(s, 1, Len(s) - 1))
    ELSE s

\* str.strip()
strip(s) == rstrip(lstrip(s))

\* the 1-based positions where sub occurs in s
Occurrences(s, sub) ==
    {i \in 1..(Len(s) - Len(sub) + 1) : SubSeq(s, i, i + Len(sub) - 1) = sub}

\* sub in s
Contains(s, sub) == Occurrences(s, sub) # {}

Min(S) == CHOOSE x \in S : \A y \in S : x <= y
Max(S) == CHOOSE x \in S : \A y \in S : x >= y

\* s.replace(sub, '', 1): the first occurrence of sub removed
replace_first(s, sub) ==
    IF sub = <<>> \/ Occurrences(s, sub) = {}
    THEN s
    ELSE LET i == Min(Occurrences(s, sub))
         IN SubSeq(s, 1, i - 1) \o SubSeq(s, i + Len(sub), Len(s))

DigitChar == <<"0", "1", "2", "3", "4", "5", "6", "7", "8", "9">>

\* str(n) of a natural number
RECURSIVE str(_)
str(n) == IF n < 10 THEN <<DigitChar[n + 1]>>
          ELSE str(n \div 10) \o <<DigitChar[(n % 10) + 1]>>

\* '.'.join(str(x) for x in level)
RECURSIVE join_dots(_)
join_dots(level) ==
    IF level = <<>> THEN <<>>
    ELSE IF Len(level) = 1 THEN str(level[1])
    ELSE str(level[1]) \o <<".">> \o join_dots(Tail(level))

(***************************************************************************)
(* The chapter number pattern of chapter_number_giver,                     *)
(*   ^(?!\.)((^|\.)(([iIvVxX]{1,8})|[a-zA-Z]|[0-9]+))+\.?(?=[ \t]+\S+)     *)
(* Positions are 1-based: position p is "before s[p]".                     *)
(***************************************************************************)
RomanChars == {"i", "I", "v", "V", "x", "X"}
Letters == {"a", "b", "c", "d", "e", "f", "g", "h", "i", "j", "k", "l", "m",
            "n", "o", "p", "q", "r", "s", "t", "u", "v", "w", "x", "y", "z",
            "A", "B", "C", "D", "E", "F", "G", "H", "I", "J", "K", "L", "M",
            "N", "O", "P", "Q", "R", "S", "T", "U", "V", "W", "X", "Y", "Z"}
Digits == {"0", "1", "2", "3", "4", "5", "6", "7", "8", "9"}

\* ([iIvVxX]{1,8})|[a-zA-Z]|[0-9]+ read from position p: the positions after it
SegEnds(s, p) ==
    {q \in (p + 1)..(Len(s) + 1) :
        LET t == SubSeq(s, p, q - 1)
        IN \/ Len(t) <= 8 /\ \A k \in 1..Len(t) : t[k] \in RomanChars
           \/ Len(t) = 1 /\ t[1] \in Letters
           \/ \A k \in 1..Len(t) : t[k] \in Digits}

\* one round of ((^|\.)(...)) read from position p
GroupStep(s, p) ==
    UNION {SegEnds(s, q) :
             q \in {r \in {p, p + 1} :
                      \/ r = p /\ p = 1                       \* ^
                      \/ r = p + 1 /\ p <= Len(s) /\ s[p] = "."}}

RECURSIVE GroupClosure(_, _)
GroupClosure(s, P) ==
    LET N == P \cup UNION {GroupStep(s, p) : p \in P}
    IN IF N = P THEN P ELSE GroupClosure(s, N)

\* (?=[ \t]+\S+) at position p
NumberLookahead(s, p) ==
    \E q \in (p + 1)..Len(s) :
        /\ \A k \in p..(q - 1) : s[k] \in {" ", "\t"}
        /\ s[q] \notin Whitespace

\* the positions where a match of the whole pattern can end
NumberMatchEnds(s) ==
    IF s = <<>> \/ s[1] = "." THEN {}                         \* ^(?!\.)
    ELSE LET G == GroupClosure(s, GroupStep(s, 1))
             D == G \cup {p + 1 : p \in {r \in G : r <= Len(s) /\ s[r] = "."}}
         IN {p \in D : NumberLookahead(s, p)}

\* re.match(pattern, s) is not None
number_matches(s) == NumberMatchEnds(s) # {}

\* chapter_number[0]: the matched text.  A match ends right before the first
\* blank or tab of s, so NumberMatchEnds has at most one element.
chapter_number_0(s) == SubSeq(s, 1, Max(NumberMatchEnds(s)) - 1)

(***************************************************************************)
(* catalog.chapter_number_giver                                            *)
(***************************************************************************)
VirtPrefix == <<"v", "i", "r", "t", ".">>

\* current_level = start_level + idx_chapter (idx_chapter is 0-based)
current_level_bad(start_level, idx_chapter) == start_level

current_level(start_level, idx_chapter) == start_level + idx_chapter

\* chapter_title.replace(chapter_number[0], '', 1).strip()
numbered_title_bad(chapter_title, number) == replace_first(chapter_title, number)

numbered_title(chapter_title, number) == strip(replace_first(chapter_title, number))

\* virt_hierarchical_level is the dotted string as the sequence of its numbers
RECURSIVE chapter_number_giver(_, _)
chapter_number_giver(chapters, virt_hierarchical_level) ==
    LET levels == virt_hierarchical_level
        start_level == levels[Len(levels)]
        parent_level == SubSeq(levels, 1, Len(levels) - 1)
    IN [i \in 1..Len(chapters) |->
          LET chapter == chapters[i]
              new_hierarchical_level ==
                  Append(parent_level, current_level(start_level, i - 1))
              chapter_title == strip(chapter.title)
              numbered ==
                  IF number_matches(chapter_title)
                  THEN [chapter EXCEPT
                          !.number = chapter_number_0(chapter_title),
                          !.title = numbered_title(chapter_title,
                                                   chapter_number_0(chapter_title))]
                  ELSE [chapter EXCEPT
                          !.number = VirtPrefix \o join_dots(new_hierarchical_level)]
          IN IF chapter.content # <<>>
             THEN [numbered EXCEPT
                     !.content = chapter_number_giver(
                                     chapter.content,
                                     Append(new_hierarchical_level, 1))]
             ELSE numbered]

(***************************************************************************)
(* Outlines as nested lists of entries.  An outline of n entries is drawn  *)
(* as its preorder list of depths and nested by Nest.                      *)
(***************************************************************************)
\* the entries after the first that lie deeper than base
RECURSIVE DescCount(_, _)
DescCount(seq, base) ==
    IF seq = <<>> \/ Head(seq).depth <= base THEN 0
    ELSE 1 + DescCount(Tail(seq), base)

RECURSIVE Nest(_, _)
Nest(seq, base) ==
    IF seq = <<>> THEN <<>>
    ELSE LET k == DescCount(Tail(seq), base)
         IN <<[title |-> seq[1].title, number |-> <<>>,
               content |-> Nest(SubSeq(seq, 2, k + 1), base + 1)]>>
            \o Nest(SubSeq(seq, k + 2, Len(seq)), base)

PreorderDepths(n) ==
    {d \in [1..n -> 1..n] :
        /\ n > 0 => d[1] = 1
        /\ \A i \in 2..n : d[i] <= d[i - 1] + 1}

\* titles of the outlines with several entries: without and with a number
TreeTitles == {<<"a">>, <<"1", " ", "a">>}

\* the characters of the titles of the one-entry outlines
TitleChars == {"1", "v", "a", ".", " ", "\t"}

Titles == UNION {[1..n -> TitleChars] : n \in 1..MaxTitleLen}

Outlines ==
    UNION {{Nest([i \in 1..n |-> [depth |-> d[i], title |-> t[i]]], 1) :
              d \in PreorderDepths(n), t \in [1..n -> TreeTitles]} :
           n \in 0..MaxNodes}
    \cup {<<[title |-> t, number |-> <<>>, content |-> <<>>]>> : t \in Titles}

\* the paths (1-based sibling indices from the top level) of the entries
RECURSIVE Paths(_)
Paths(forest) ==
    UNION {{<<i>>} \cup {<<i>> \o p : p \in Paths(forest[i].content)} :
             i \in 1..Len(forest)}

RECURSIVE NodeAt(_, _)
NodeAt(forest, path) ==
    IF Len(path) = 1 THEN forest[path[1]]
    ELSE NodeAt(forest[path[1]].content, Tail(path))

NumIdle ==
    /\ outline_src = <<>>
    /\ chapters_in_outline = <<>>
    /\ cng_pc = "idle"

NumStart ==
    /\ outline_src \in Outlines
    /\ chapters_in_outline = outline_src
    /\ cng_pc = "start"

\* get_outline: if outlines['content']: chapter_number_giver(outlines['content'], '1')
GiveNumbers ==
    /\ cng_pc = "start"
    /\ chapters_in_outline' =
           IF chapters_in_outline # <<>>
           THEN chapter_number_giver(chapters_in_outline, <<1>>)
           ELSE chapters_in_outline
    /\ cng_pc' = "done"
    /\ UNCHANGED outline_src
    /\ UNCHANGED numOthers

NumNext == GiveNumbers

(***************************************************************************)
(* C3: every outline entry whose title has no chapter-number prefix gets   *)
(* the number 'virt.' followed by the dot-joined 1-based sibling indices   *)
(* on its path from the top level, and the virtual numbers of one outline  *)
(* are pairwise distinct.                                                  *)
(***************************************************************************)
IsVirt(number) == Contains(number, VirtPrefix)

C3_VirtualNumbers ==
    cng_pc = "done" =>
        /\ \A p \in Paths(outline_src) :
              ~number_matches(strip(NodeAt(outline_src, p).title)) =>
                  NodeAt(chapters_in_outline, p).number = VirtPrefix \o join_dots(p)
        /\ \A p, q \in Paths(chapters_in_outline) :
              (/\ p # q
               /\ IsVirt(NodeAt(chapters_in_outline, p).number)
               /\ IsVirt(NodeAt(chapters_in_outline, q).number))
              => NodeAt(chapters_in_outline, p).number
                   # NodeAt(chapters_in_outline, q).number

\* a numbered entry followed by an unnumbered sibling that has an unnumbered child
C3_Witness ==
    /\ cng_pc = "done"
    /\ Len(chapters_in_outline) >= 2
    /\ ~IsVirt(chapters_in_outline[1].number)
    /\ chapters_in_outline[2].number = VirtPrefix \o <<"2">>
    /\ chapters_in_outline[2].content # <<>>
    /\ chapters_in_outline[2].content[1].number = VirtPrefix \o <<"2", ".", "1">>

(***************************************************************************)
(* C4 as claimed: for every title that starts, stripped, with a chapter    *)
(* number, number + ' ' + title is the stripped original title.            *)
(***************************************************************************)
C4_RoundTrip ==
    cng_pc = "done" =>
        \A p \in Paths(outline_src) :
            number_matches(strip(NodeAt(outline_src, p).title)) =>
                NodeAt(chapters_in_outline, p).number \o <<" ">>
                    \o NodeAt(chapters_in_outline, p).title
                = strip(NodeAt(outline_src, p).title)

\* the number is followed by exactly one blank
SingleBlankAfterNumber(s) ==
    /\ number_matches(s)
    /\ LET e == Max(NumberMatchEnds(s))
       IN s[e] = " " /\ s[e + 1] \notin Whitespace

(***************************************************************************)
(* C4 amended: the round trip holds when exactly one blank separates the   *)
(* number from the rest of the stripped title.                             *)
(***************************************************************************)
C4_RoundTripSingleBlank ==
    cng_pc = "done" =>
        \A p \in Paths(outline_src) :
            SingleBlankAfterNumber(strip(NodeAt(outline_src, p).title)) =>
                NodeAt(chapters_in_outline, p).number \o <<" ">>
                    \o NodeAt(chapters_in_outline, p).title
                = strip(NodeAt(outline_src, p).title)

C4_Witness ==
    /\ cng_pc = "done"
    /\ outline_src = <<[title |-> <<"1", ".", " ", "a">>, number |-> <<>>,
                        content |-> <<>>]>>
    /\ chapters_in_outline[1].number = <<"1", ".">>
    /\ chapters_in_outline[1].title = <<"a">>

(***************************************************************************)
(* extract.smart_page_crop_header_footer and                               *)
(* extract.check_false_positive_header_footer.                             *)
(* Coordinates are integers in units of 0.00001 point; an element is a     *)
(* record [id, page, y0, y1], the id standing for the object's identity.   *)
(* Fractions are percentages.                                              *)
(***************************************************************************)
PointUnit == 100000                                   \* the 1 of abs(..) < 1
SMART_PAGE_CROP_REL_MARGINS_top == 20                 \* 0.2
SMART_PAGE_CROP_REL_MARGINS_bottom == 20              \* 0.2
HEADER_FOOTER_OCCURRENCE_PERCENTAGE == 30             \* 0.3
PAGES_MISSING_HEADER_OR_FOOTER_PERCENTAGE == 15       \* 0.15
HEADER_OR_FOOTER_CONTINUOUS_PERCENTAGE == 80          \* 0.8
UNIQUE_HEADER_OR_FOOTER_ELEMENTS_PERCENTAGE == 5      \* 0.05

Abs(x) == IF x < 0 THEN -x ELSE x

\* float(f'{y:.4f}'): y rounded to 4 decimals
Round4(y) == ((y + 5) \div 10) * 10

\* del s[i]
RemoveAt(s, i) == SubSeq(s, 1, i - 1) \o SubSeq(s, i + 1, Len(s))

SeqFilter(s, Keep(_)) ==
    LET F[i \in 0..Len(s)] ==
            IF i = 0 THEN <<>>
            ELSE IF Keep(s[i]) THEN Append(F[i - 1], s[i]) ELSE F[i - 1]
    IN F[Len(s)]

\* the keys of elements_page_dict, in the order of their insertion
page_keys(elements_list) ==
    LET F[i \in 0..Len(elements_list)] ==
            IF i = 0 THEN <<>>
            ELSE IF \E k \in 1..Len(F[i - 1]) : F[i - 1][k] = elements_list[i].page
                 THEN F[i - 1]
                 ELSE Append(F[i - 1], elements_list[i].page)
    IN F[Len(elements_list)]

\* element_low_pos_dict[page_num]
element_low_pos(elements_list, page_num) ==
    Min({Round4(elements_list[i].y0) :
           i \in {k \in 1..Len(elements_list) : elements_list[k].page = page_num}})

\* for idx, element in enumerate(elements_list): if ... == header_low_pos: del elements_list[idx]
\* idx is the 1-based position the loop has reached
RECURSIVE delete_low_pos(_, _, _)
delete_low_pos(elements_list, idx, header_low_pos) ==
    IF idx > Len(elements_list) THEN elements_list
    ELSE IF Round4(elements_list[idx].y0) = header_low_pos
         THEN delete_low_pos(RemoveAt(elements_list, idx), idx + 1, header_low_pos)
         ELSE delete_low_pos(elements_list, idx + 1, header_low_pos)

\* if len(elements_list) == 1: elements_list.pop()
pop_single_bad(elements_list) == SubSeq(elements_list, 1, Len(elements_list) - 1)

pop_single(elements_list) ==
    IF Len(elements_list) = 1
    THEN SubSeq(elements_list, 1, Len(elements_list) - 1)
    ELSE elements_list

\* elements_list is not empty
RECURSIVE check_false_positive_header_footer(_, _)
check_false_positive_header_footer(pdf, elements_list) ==
    LET keys == page_keys(elements_list)
        start_page_low_pos == keys[1]
        end_page_low_pos == keys[Len(keys)]
        span == end_page_low_pos - start_page_low_pos + 1
        page_breaks == span - Len(keys)
        low_values == {element_low_pos(elements_list, keys[i]) : i \in 1..Len(keys)}
        header_low_pos == Min(low_values)
        continuous_page_list ==
            {keys[i] : i \in {k \in 1..Len(keys) :
                                element_low_pos(elements_list, keys[k]) = header_low_pos}}
        continuous_list_length ==
            Max(continuous_page_list) - Min(continuous_page_list) + 1
        deleted == delete_low_pos(elements_list, 1, header_low_pos)
        again == IF deleted # <<>>
                 THEN check_false_positive_header_footer(pdf, deleted)
                 ELSE deleted
    IN IF page_breaks * 100 <= PAGES_MISSING_HEADER_OR_FOOTER_PERCENTAGE * span
       THEN IF Cardinality(low_values) # 1
            THEN IF /\ Cardinality(continuous_page_list) * 100
                          < continuous_list_length * HEADER_OR_FOOTER_CONTINUOUS_PERCENTAGE
                    /\ Cardinality(low_values) > 1
                    /\ Cardinality(low_values) * 100
                          > UNIQUE_HEADER_OR_FOOTER_ELEMENTS_PERCENTAGE * pdf.pages
                 THEN again
                 ELSE elements_list
            ELSE pop_single(elements_list)
       ELSE again

\* the elements of elements_page_dict.values(), page by page
by_pages(elements_list) ==
    LET keys == page_keys(elements_list)
        F[i \in 0..Len(keys)] ==
            IF i = 0 THEN <<>>
            ELSE F[i - 1] \o SeqFilter(elements_list, LAMBDA e : e.page = keys[i])
    IN F[Len(keys)]

\* page_cnt of one potential header/footer element
page_cnt(element, elements_list) ==
    Cardinality({elements_list[i].page :
                   i \in {k \in 1..Len(elements_list) :
                            /\ Abs(element.y0 - elements_list[k].y0) < PointUnit
                            /\ Abs(element.y1 - elements_list[k].y1) < PointUnit}})

in_header_area(pdf, element) ==
    element.y0 * 100 >= (100 - SMART_PAGE_CROP_REL_MARGINS_top) * pdf.height

in_footer_area(pdf, element) ==
    element.y1 * 100 <= SMART_PAGE_CROP_REL_MARGINS_bottom * pdf.height

\* page_cnt >= HEADER_FOOTER_OCCURRENCE_PERCENTAGE * len(pdf.pages)
occurs_often(pdf, cnt) == cnt * 100 >= HEADER_FOOTER_OCCURRENCE_PERCENTAGE * pdf.pages

InSeq(e, s) == \E i \in 1..Len(s) : s[i] = e
Range(s) == {s[i] : i \in 1..Len(s)}

\* [element for element in elements_list if element not in real_elements_list]
remove_elements_bad(elements_list, real_elements_list) ==
    IF real_elements_list = <<>> THEN elements_list
    ELSE SeqFilter(elements_list, LAMBDA e : e # real_elements_list[1])

remove_elements(elements_list, real_elements_list) ==
    SeqFilter(elements_list, LAMBDA e : ~InSeq(e, real_elements_list))

smart_page_crop_header_footer(pdf, elements_list) ==
    LET all == by_pages(elements_list)
        header_elements_list ==
            SeqFilter(all, LAMBDA e : /\ in_header_area(pdf, e)
                                      /\ occurs_often(pdf, page_cnt(e, elements_list)))
        real_header_elements_list ==
            IF header_elements_list # <<>>
            THEN check_false_positive_header_footer(pdf, header_elements_list)
            ELSE header_elements_list
        without_header == remove_elements(elements_list, real_header_elements_list)
        footer_elements_list ==
            SeqFilter(all, LAMBDA e : /\ in_footer_area(pdf, e)
                                      /\ occurs_often(pdf, page_cnt(e, elements_list)))
        real_footer_elements_list ==
            IF footer_elements_list # <<>>
            THEN check_false_positive_header_footer(pdf, footer_elements_list)
            ELSE footer_elements_list
    IN [header |-> header_elements_list,
        real_header |-> real_header_elements_list,
        footer |-> footer_elements_list,
        real_footer |-> real_footer_elements_list,
        elements |-> remove_elements(without_header, real_footer_elements_list)]

\* the boxes an element can have: [y0, y1] on a page 100 points high.  Elements
\* outside the top and bottom areas are never candidates and match no
\* candidate, they are left out.
HFBoxes ==
    {[y0 |-> 9000000, y1 |-> 9200000],     \* top area
     [y0 |-> 9000004, y1 |-> 9200004],     \* the same at 4 decimals
     [y0 |-> 9500000, y1 |-> 9700000],     \* top area, 5 points higher
     [y0 |-> 500000, y1 |-> 700000]}       \* bottom area

\* an element list in the order of extraction, page by page: the pages pg and
\* the boxes bx of its n elements
HFElementList(n, pg, bx) ==
    [i \in 1..n |-> [id |-> i, page |-> pg[i], y0 |-> bx[i].y0, y1 |-> bx[i].y1]]

NoRun == [header |-> <<>>, real_header |-> <<>>, footer |-> <<>>,
          real_footer |-> <<>>, elements |-> <<>>]

HFIdle ==
    /\ hf_pdf = [pages |-> 0, height |-> 0]
    /\ hf_elements = <<>>
    /\ hf_run1 = NoRun
    /\ hf_run2 = NoRun
    /\ hf_pc = "idle"

HFStart ==
    /\ hf_pdf \in {[pages |-> n, height |-> 10000000] : n \in 1..MaxHFPages}
    /\ \E n \in 0..MaxHFElements :
          \E pg \in [1..n -> 1..hf_pdf.pages], bx \in [1..n -> HFBoxes] :
              /\ \A i \in 2..n : pg[i - 1] <= pg[i]
              /\ hf_elements = HFElementList(n, pg, bx)
    /\ hf_run1 = NoRun
    /\ hf_run2 = NoRun
    /\ hf_pc = "start"

\* elements_list = smart_page_crop_header_footer(pdf, elements_list)
CropOnce ==
    /\ hf_pc = "start"
    /\ hf_run1' = smart_page_crop_header_footer(hf_pdf, hf_elements)
    /\ hf_pc' = "once"
    /\ UNCHANGED <<hf_pdf, hf_elements, hf_run2>>
    /\ UNCHANGED hfOthers

\* the same call on the list the first call returned
CropAgain ==
    /\ hf_pc = "once"
    /\ hf_run2' = smart_page_crop_header_footer(hf_pdf, hf_run1.elements)
    /\ hf_pc' = "twice"
    /\ UNCHANGED <<hf_pdf, hf_elements, hf_run1>>
    /\ UNCHANGED hfOthers

HFNext == CropOnce \/ CropAgain

(***************************************************************************)
(* C9 as claimed: header/footer removal is idempotent, the second          *)
(* application returns the list it was given.                              *)
(***************************************************************************)
C9_Idempotent == hf_pc = "twice" => hf_run2.elements = hf_run1.elements

(***************************************************************************)
(* C9 amended: the second application returns the list it was given when   *)
(* phase 2 of the first application kept every phase-1 candidate.          *)
(***************************************************************************)
C9_IdempotentWhenAllKept ==
    (/\ hf_pc = "twice"
     /\ hf_run1.real_header = hf_run1.header
     /\ hf_run1.real_footer = hf_run1.footer)
    => hf_run2.elements = hf_run1.elements

\* header and footer elements were removed, an element of the top area stayed
C9_Witness ==
    /\ hf_pc = "twice"
    /\ hf_run1.real_header = hf_run1.header
    /\ hf_run1.real_footer = hf_run1.footer
    /\ hf_run1.header # <<>>
    /\ \E e \in Range(hf_run1.elements) : in_header_area(hf_pdf, e)
    /\ \E e \in Range(hf_run1.elements) : in_footer_area(hf_pdf, e)
    /\ hf_run2.elements = hf_run1.elements

\* all candidates share one y0 at 4 decimals, and the share of the pages
\* without a candidate between the first and the last candidate page is <= 0.15
OneY0FewGaps(candidates) ==
    /\ candidates # <<>>
    /\ Cardinality({Round4(e.y0) : e \in Range(candidates)}) = 1
    /\ LET P == {e.page : e \in Range(candidates)}
           n == Max(P) - Min(P) + 1
       IN (n - Cardinality(P)) * 100 <= 15 * n

KeptAndRemoved(candidates, real, elements) ==
    /\ real = candidates
    /\ \A e \in Range(candidates) : ~InSeq(e, elements)

(***************************************************************************)
(* C10 as claimed: when all candidates share one y0 and few pages lack a   *)
(* candidate, phase 2 keeps them all and they are removed, for any number  *)
(* of candidates >= 1.                                                     *)
(***************************************************************************)
C10_KeepsAll ==
    hf_pc = "once" =>
        /\ OneY0FewGaps(hf_run1.header)
             => KeptAndRemoved(hf_run1.header, hf_run1.real_header, hf_run1.elements)
        /\ OneY0FewGaps(hf_run1.footer)
             => KeptAndRemoved(hf_run1.footer, hf_run1.real_footer, hf_run1.elements)

(***************************************************************************)
(* C10 amended: the same for any number of candidates >= 2; a single       *)
(* candidate is dropped by phase 2 and stays in the list.                  *)
(***************************************************************************)
C10_KeepsAllOfSeveral ==
    hf_pc = "once" =>
        /\ (Len(hf_run1.header) >= 2 /\ OneY0FewGaps(hf_run1.header))
             => KeptAndRemoved(hf_run1.header, hf_run1.real_header, hf_run1.elements)
        /\ (Len(hf_run1.footer) >= 2 /\ OneY0FewGaps(hf_run1.footer))
             => KeptAndRemoved(hf_run1.footer, hf_run1.real_footer, hf_run1.elements)

\* three candidates on three pages whose y0 differ only beyond the 4th decimal
C10_Witness ==
    /\ hf_pc = "once"
    /\ Len(hf_run1.header) >= 3
    /\ OneY0FewGaps(hf_run1.header)
    /\ Cardinality({e.y0 : e \in Range(hf_run1.header)}) = 2
    /\ Cardinality({e.page : e \in Range(hf_run1.header)}) = 3
    /\ KeptAndRemoved(hf_run1.header, hf_run1.real_header, hf_run1.elements)

(***************************************************************************)
(* textbox.extract_linked_chars, annos_scanner,                            *)
(* first_last_char_in_anno_marker and render_link.                         *)
(* A text box is a list of lines, a line a record [objs, y0, y1] whose     *)
(* objs are "LTChar" or "LTAnno"; the k-th object of a line (0-based) is   *)
(* 10 points wide and starts at x = 10 * k.  None is -1 in anno_flags.     *)
(***************************************************************************)
ANNO_X_TOLERANCE == 3

char_x0(idx_char) == 10 * idx_char
char_x1(idx_char) == 10 * idx_char + 10

CharIdx(objs) == {k \in 0..(Len(objs) - 1) : objs[k + 1] = "LTChar"}

\* the bounding box pdfminer gives a line: that of its LTChar objects
line_x0(line) == Min({char_x0(k) : k \in CharIdx(line.objs)})
line_x1(line) == Max({char_x1(k) : k \in CharIdx(line.objs)})

box_x0(lt_textbox) == Min({line_x0(lt_textbox[j]) : j \in 1..Len(lt_textbox)})
box_x1(lt_textbox) == Max({line_x1(lt_textbox[j]) : j \in 1..Len(lt_textbox)})
box_y0(lt_textbox) == Min({lt_textbox[j].y0 : j \in 1..Len(lt_textbox)})
box_y1(lt_textbox) == Max({lt_textbox[j].y1 : j \in 1..Len(lt_textbox)})

\* list.sort(key=lambda x: x['rect'][0]): stable insertion by rect[0]
RECURSIVE sort_by_rect0(_)
sort_by_rect0(annos) ==
    IF annos = <<>> THEN <<>>
    ELSE LET rest == sort_by_rect0(SubSeq(annos, 1, Len(annos) - 1))
             last == annos[Len(annos)]
             k == Cardinality({i \in 1..Len(rest) : rest[i].rect[1] <= last.rect[1]})
         IN SubSeq(rest, 1, k) \o <<last>> \o SubSeq(rest, k + 1, Len(rest))

\* stop_idx exceeds the last linked character by two
render_link_bad(anno_flags, anno, char_counter) ==
    [idx_start |-> anno_flags.anno_start_idx + char_counter,
     idx_stop |-> anno_flags.anno_stop_idx + char_counter + 1,
     anno |-> anno.id]

render_link(anno_flags, anno, char_counter) ==
    LET start_idx == anno_flags.anno_start_idx + char_counter
    IN [idx_start |-> start_idx,
        idx_stop |-> IF anno_flags.anno_start_idx = anno_flags.anno_stop_idx
                     THEN start_idx
                     ELSE anno_flags.anno_stop_idx + char_counter,
        anno |-> anno.id]

\* [anno_complete, anno_flags, error]; anno_complete None is FALSE
first_last_char_in_anno_marker(idx_char, objs, anno, anno_flags) ==
    LET last == idx_char = Len(objs) - 1
        next_is_char == ~last /\ objs[idx_char + 2] = "LTChar"
        next_outside == next_is_char /\ char_x0(idx_char + 1) > anno.rect[3]
    IN IF objs[idx_char + 1] = "LTChar"
       THEN IF /\ char_x0(idx_char) > anno.rect[1] - ANNO_X_TOLERANCE
               /\ char_x1(idx_char) < anno.rect[3] + ANNO_X_TOLERANCE
            THEN [anno_complete |-> last \/ next_outside,
                  anno_flags |->
                      [anno_start_idx |-> IF anno_flags.anno_start_idx = -1
                                          THEN idx_char
                                          ELSE anno_flags.anno_start_idx,
                       anno_stop_idx |-> idx_char + 1],
                  error |-> "none"]
            ELSE [anno_complete |-> FALSE, anno_flags |-> anno_flags, error |-> "none"]
       ELSE IF last \/ next_is_char
            THEN [anno_complete |-> last \/ next_outside,
                  anno_flags |-> anno_flags, error |-> "none"]
            ELSE [anno_complete |-> FALSE, anno_flags |-> anno_flags,
                  error |-> "ValueError"]

NoFlags == [anno_start_idx |-> -1, anno_stop_idx |-> -1]

\* the loop of annos_scanner after idx_char objects: [idx_anno, anno_flags, links, error]
annos_scanner(lt_textline, annos_line, char_counter) ==
    LET objs == lt_textline.objs
        F[n \in 0..Len(objs)] ==
            IF n = 0
            THEN [idx_anno |-> 0, anno_flags |-> NoFlags, links |-> <<>>, error |-> "none"]
            ELSE LET st == F[n - 1]
                     idx_char == n - 1
                 IN IF st.error # "none" \/ st.idx_anno >= Len(annos_line) THEN st
                    ELSE LET anno == annos_line[st.idx_anno + 1]
                             r == first_last_char_in_anno_marker(
                                      idx_char, objs, anno, st.anno_flags)
                         IN IF r.error # "none" THEN [st EXCEPT !.error = r.error]
                            ELSE IF /\ r.anno_flags.anno_start_idx # -1
                                    /\ r.anno_flags.anno_stop_idx # -1
                                    /\ r.anno_complete
                                 THEN [idx_anno |-> st.idx_anno + 1,
                                       anno_flags |-> NoFlags,
                                       links |-> Append(st.links,
                                                    render_link(r.anno_flags, anno,
                                                                char_counter)),
                                       error |-> "none"]
                                 ELSE [st EXCEPT !.anno_flags = r.anno_flags]
    IN F[Len(objs)]

\* [links, error]
extract_linked_chars(lt_textbox, annos) ==
    LET anno_textboxes ==
            SeqFilter(annos, LAMBDA x : /\ x.rect[1] < box_x1(lt_textbox)
                                        /\ x.rect[2] < box_y1(lt_textbox)
                                        /\ x.rect[3] > box_x0(lt_textbox)
                                        /\ x.rect[4] > box_y0(lt_textbox))
        \* [char_counter, links, error] after j lines
        F[j \in 0..Len(lt_textbox)] ==
            IF j = 0 THEN [char_counter |-> 0, links |-> <<>>, error |-> "none"]
            ELSE LET st == F[j - 1]
                     line_horizontal == lt_textbox[j]
                     annos_line ==
                         SeqFilter(anno_textboxes,
                             LAMBDA x :
                                 /\ x.rect[1] < line_x1(line_horizontal)
                                 /\ x.rect[3] > line_x0(line_horizontal)
                                 \* the vertical middle of the rectangle, doubled
                                 /\ 2 * line_horizontal.y1
                                        > 2 * x.rect[2] + Abs(x.rect[2] - x.rect[4])
                                 /\ 2 * x.rect[2] + Abs(x.rect[2] - x.rect[4])
                                        > 2 * line_horizontal.y0)
                     scan == annos_scanner(line_horizontal, sort_by_rect0(annos_line),
                                           st.char_counter)
                 IN IF st.error # "none" THEN st
                    ELSE IF annos_line # <<>> /\ scan.error # "none"
                         THEN [st EXCEPT !.error = scan.error]
                         ELSE [char_counter |-> st.char_counter + Len(line_horizontal.objs),
                               links |-> IF annos_line # <<>>
                                         THEN st.links \o scan.links
                                         ELSE st.links,
                               error |-> "none"]
    IN IF annos = <<>> \/ anno_textboxes = <<>>
       THEN [links |-> <<>>, error |-> "none"]
       ELSE [links |-> F[Len(lt_textbox)].links, error |-> F[Len(lt_textbox)].error]

\* the annotations of the page in the order of the catalog; rect is
\* <<x0, y0, x1, y1>>, the lines of a text box are 10 points high below y = 100
AnnoRects ==
    <<[id |-> 1, rect |-> <<10, 90, 30, 100>>],     \* 2nd and 3rd object of line 1
      [id |-> 2, rect |-> <<0, 90, 10, 100>>],      \* 1st object of line 1
      [id |-> 3, rect |-> <<0, 75, 40, 95>>],       \* middle in line 2, 4 objects wide
      [id |-> 4, rect |-> <<0, 80, 20, 90>>],       \* 1st and 2nd object of line 2
      [id |-> 5, rect |-> <<5, 80, 15, 90>>],       \* line 2, covers no object entirely
      [id |-> 6, rect |-> <<20, 80, 30, 90>>]>>     \* 3rd object of line 2

\* the j-th smallest element of a set of numbers
Nth(S, j) == CHOOSE i \in S : Cardinality({k \in S : k <= i}) = j

\* the lines of a text box of n objects: kind[i] is the i-th object, nl[i] says
\* that it starts a line
LinesOf(n, kind, nl) ==
    LET starts == {i \in 1..n : nl[i]}
    IN [j \in 1..Cardinality(starts) |->
          [objs |-> SubSeq(kind, Nth(starts, j),
                           IF j = Cardinality(starts) THEN n
                           ELSE Nth(starts, j + 1) - 1),
           y0 |-> 100 - 10 * j,
           y1 |-> 110 - 10 * j]]

TotalObjs(lt_textbox) ==
    LET F[j \in 0..Len(lt_textbox)] ==
            IF j = 0 THEN 0 ELSE F[j - 1] + Len(lt_textbox[j].objs)
    IN F[Len(lt_textbox)]

LinkIdle ==
    /\ lk_textbox = <<>>
    /\ lk_annos = <<>>
    /\ lk_links = <<>>
    /\ lk_error = "none"
    /\ lk_pc = "idle"

\* pdfminer builds a line around at least one LTChar
LinkStart ==
    /\ \E n \in 1..MaxObjs :
          \E kind \in [1..n -> {"LTChar", "LTAnno"}], nl \in [1..n -> BOOLEAN] :
              /\ nl[1]
              /\ lk_textbox = LinesOf(n, kind, nl)
              /\ \A j \in 1..Len(lk_textbox) : CharIdx(lk_textbox[j].objs) # {}
    /\ \E chosen \in SUBSET (1..Len(AnnoRects)) :
          lk_annos = SeqFilter(AnnoRects, LAMBDA a : a.id \in chosen)
    /\ lk_links = <<>>
    /\ lk_error = "none"
    /\ lk_pc = "start"

\* links = extract_linked_chars(lt_textbox, page_number); a ValueError leaves no links
ExtractLinkedChars ==
    /\ lk_pc = "start"
    /\ LET r == extract_linked_chars(lk_textbox, lk_annos)
       IN /\ lk_error' = r.error
          /\ lk_links' = IF r.error = "none" THEN r.links ELSE <<>>
    /\ lk_pc' = "done"
    /\ UNCHANGED <<lk_textbox, lk_annos>>
    /\ UNCHANGED linkOthers

LinkNext == ExtractLinkedChars

(***************************************************************************)
(* C7: every Link emitted for a text box has                               *)
(* 0 <= idx_start <= idx_stop <= number of the objects (glyphs and         *)
(* separators) of all lines of the text box.                               *)
(***************************************************************************)
C7_LinkIndexValid ==
    lk_pc = "done" =>
        \A i \in 1..Len(lk_links) :
            /\ 0 <= lk_links[i].idx_start
            /\ lk_links[i].idx_start <= lk_links[i].idx_stop
            /\ lk_links[i].idx_stop <= TotalObjs(lk_textbox)

\* two links, one of them in the second line and ending with the text box
C7_Witness ==
    /\ lk_pc = "done"
    /\ lk_error = "none"
    /\ Len(lk_textbox) >= 2
    /\ Len(lk_links) >= 2
    /\ \E i \in 1..Len(lk_links) :
          /\ lk_links[i].idx_start >= Len(lk_textbox[1].objs)
          /\ lk_links[i].idx_stop = TotalObjs(lk_textbox)

\* the line (its number in the text box) that holds the vertical middle of
\* the rectangle of an annotation, 0 when none does
LineOfAnno(anno) ==
    LET mid2 == 2 * anno.rect[2] + Abs(anno.rect[2] - anno.rect[4])
        hits == {j \in 1..Len(lk_textbox) :
                    2 * lk_textbox[j].y1 > mid2 /\ mid2 > 2 * lk_textbox[j].y0}
    IN IF hits = {} THEN 0 ELSE Min(hits)

\* the glyphs of a line inside the x-range of an annotation, by their index
GlyphsInside(line, anno) ==
    {k \in CharIdx(line.objs) :
        /\ char_x0(k) > anno.rect[1] - ANNO_X_TOLERANCE
        /\ char_x1(k) < anno.rect[3] + ANNO_X_TOLERANCE}

\* the objects of the lines before line j
CharsBefore(j) == TotalObjs(SubSeq(lk_textbox, 1, j - 1))

\* 1 when the object after the glyph k is a separator that ends the line
TrailingSeparator(line, k) ==
    IF k + 2 = Len(line.objs) /\ line.objs[k + 2] = "LTAnno" THEN 1 ELSE 0

\* C23: the range [idx_start, idx_stop) of a Link starts at the first glyph
\* inside its annotation and ends after the last glyph inside it, and when a
\* separator at the end of the line follows that glyph directly it takes the
\* separator in
C23_RangeWithTrailingSeparator ==
    lk_pc = "done" =>
        \A i \in 1..Len(lk_links) :
            LET anno == AnnoRects[lk_links[i].anno]
                j == LineOfAnno(anno)
                inside == GlyphsInside(lk_textbox[j], anno)
            IN /\ j # 0
               /\ inside # {}
               /\ lk_links[i].idx_start = CharsBefore(j) + Min(inside)
               /\ lk_links[i].idx_stop =
                     CharsBefore(j) + Max(inside) + 1
                        + TrailingSeparator(lk_textbox[j], Max(inside))

\* the Links emitted for an annotation, by their index in the list
LinksOfAnno(anno) == {i \in 1..Len(lk_links) : lk_links[i].anno = anno.id}

\* C27: every annotation of a line that has a glyph inside its x-range yields
\* exactly one Link, whatever the annotations further left on the line
\* matched, and the Links come left to right with disjoint index ranges
C27_OneLinkPerMatchedAnnotation ==
    (lk_pc = "done" /\ lk_error = "none") =>
        /\ \A a \in 1..Len(lk_annos) :
              LET j == LineOfAnno(lk_annos[a])
              IN (j # 0 /\ GlyphsInside(lk_textbox[j], lk_annos[a]) # {})
                     => Cardinality(LinksOfAnno(lk_annos[a])) = 1
        /\ \A i \in 1..(Len(lk_links) - 1) :
              lk_links[i].idx_stop <= lk_links[i + 1].idx_start

(***************************************************************************)
(* catalog.get_outline, resolve_outline and textbox.render_chapters.       *)
(* An outline item of the PDF is [id, S, page, y1, Title, First]: S is the *)
(* type of its action, page and y1 the page and the height its destination *)
(* points to, First the list of its children (the /First child and the     *)
(* /Next chain of it).                                                     *)
(* A page that is not extracted has the number None, here 0.               *)
(***************************************************************************)
NonePage == 0

\* get_explict_dest: the page number among the pages left in pdf.pages
dest_page_num(page, extracted) == IF page \in extracted THEN page ELSE NonePage

\* resolve_outline(outline_obj, outline_list, ...): objs is outline_obj followed
\* by the chain of its /Next items.  [error, outline_list]
RECURSIVE resolve_outline(_, _, _)
resolve_outline(objs, outline_list, extracted) ==
    IF objs = <<>> THEN [error |-> "none", outline_list |-> outline_list]
    ELSE LET outline_obj == Head(objs)
             outline == [number |-> <<>>,
                         title |-> outline_obj.Title,
                         position |-> [page |-> dest_page_num(outline_obj.page, extracted),
                                       y1 |-> outline_obj.y1],
                         content |-> <<>>,
                         obj |-> outline_obj.id]
             \* if outline_dest: outline_list.append(outline)
             appended == IF outline_obj.S = "GoTo"
                         THEN Append(outline_list, outline)
                         ELSE outline_list
         IN IF outline_obj.First # <<>>
            THEN IF appended = <<>>
                 \* outline_list[len(outline_list) - 1] of an empty list
                 THEN [error |-> "IndexError", outline_list |-> appended]
                 ELSE LET r == resolve_outline(outline_obj.First,
                                               appended[Len(appended)].content,
                                               extracted)
                          filled == [appended EXCEPT
                                        ![Len(appended)].content = r.outline_list]
                      IN IF r.error # "none"
                         THEN [error |-> r.error, outline_list |-> filled]
                         ELSE resolve_outline(Tail(objs), filled, extracted)
            ELSE resolve_outline(Tail(objs), appended, extracted)

NoOutline == [present |-> FALSE, content |-> <<>>]

\* [error, outline]
get_outline(pdf_outline, extracted) ==
    IF pdf_outline = <<>> THEN [error |-> "none", outline |-> NoOutline]
    ELSE LET r == resolve_outline(pdf_outline, <<>>, extracted)
         IN IF r.error # "none" THEN [error |-> r.error, outline |-> NoOutline]
            ELSE [error |-> "none",
                  outline |-> [present |-> TRUE,
                               content |-> IF r.outline_list # <<>>
                                           THEN chapter_number_giver(r.outline_list, <<1>>)
                                           ELSE r.outline_list]]

RECURSIVE flatten_outline(_)
flatten_outline(nested_outline) ==
    IF nested_outline = <<>> THEN <<>>
    ELSE <<Head(nested_outline)>> \o flatten_outline(Head(nested_outline).content)
            \o flatten_outline(Tail(nested_outline))

\* the chapters of chapters_sorted_by_page, page by page in the order in which
\* the pages were inserted
chapters_sorted_by_page(outline_content, extracted_page_nums) ==
    LET on_pages == SeqFilter(flatten_outline(outline_content),
                              LAMBDA c : c.position.page \in extracted_page_nums)
        keys == page_keys([i \in 1..Len(on_pages) |-> [page |-> on_pages[i].position.page]])
        F[i \in 0..Len(keys)] ==
            IF i = 0 THEN <<>>
            ELSE F[i - 1] \o SeqFilter(on_pages, LAMBDA c : c.position.page = keys[i])
    IN F[Len(keys)]

\* the text of the box left of the title, taken as the number of the chapter
NumberBoxText == <<"1">>

\* chapter_list, the boxes left and the numbers written back to the outline;
\* winners[i] is the number of boxes chapter_examiner returns for the i-th chapter
render_chapters(outline_content, extracted_page_nums, boxes, winners) ==
    LET chapters == chapters_sorted_by_page(outline_content, extracted_page_nums)
        F[i \in 0..Len(chapters)] ==
            IF i = 0 THEN [chapter_list |-> <<>>, boxes |-> boxes, numbers |-> <<>>]
            ELSE LET st == F[i - 1]
                     chapter == chapters[i]
                     number == IF winners[i] = 2 /\ IsVirt(chapter.number)
                               THEN NumberBoxText
                               ELSE chapter.number
                 IN [chapter_list |->
                         Append(st.chapter_list,
                                [title |-> chapter.title, number |-> number,
                                 page |-> chapter.position.page,
                                 textbox |-> winners[i] > 0,
                                 obj |-> chapter.obj]),
                     boxes |-> [st.boxes EXCEPT
                                   ![chapter.position.page] = @ - winners[i]],
                     numbers |-> Append(st.numbers, [obj |-> chapter.obj, number |-> number])]
    IN F[Len(chapters)]

\* chapter_examiner returns boxes of the page of the chapter that are still there
WinnersPossible(outline_content, extracted_page_nums, boxes, winners) ==
    LET chapters == chapters_sorted_by_page(outline_content, extracted_page_nums)
    IN \A p \in extracted_page_nums :
          LET on_p == {i \in 1..Len(chapters) : chapters[i].position.page = p}
              Sum[n \in 0..Len(chapters)] ==
                  IF n = 0 THEN 0
                  ELSE Sum[n - 1] + (IF n \in on_p THEN winners[n] ELSE 0)
          IN Sum[Len(chapters)] <= boxes[p]

\* chapter['number'] = ... writes to the dict of the outline
RECURSIVE write_numbers(_, _)
write_numbers(nested_outline, numbers) ==
    [i \in 1..Len(nested_outline) |->
        LET chapter == nested_outline[i]
            hits == {k \in 1..Len(numbers) : numbers[k].obj = chapter.obj}
        IN [chapter EXCEPT
               !.number = IF hits = {} THEN @ ELSE numbers[Min(hits)].number,
               !.content = write_numbers(@, numbers)]]

\* the pages of the PDF file
OlPdfPages == {1, 2}

\* the outline items from their list in preorder
RECURSIVE NestItems(_, _, _)
NestItems(seq, base, first_id) ==
    IF seq = <<>> THEN <<>>
    ELSE LET k == DescCount(Tail(seq), base)
         IN <<[id |-> first_id, S |-> seq[1].S, page |-> seq[1].page,
               y1 |-> seq[1].y1, Title |-> seq[1].title,
               First |-> NestItems(SubSeq(seq, 2, k + 1), base + 1, first_id + 1)]>>
            \o NestItems(SubSeq(seq, k + 2, Len(seq)), base, first_id + k + 1)

\* an item jumps to a page of the file or has an action that is no jump
ItemTargets == {[S |-> "GoTo", page |-> p, y1 |-> 900] : p \in OlPdfPages}
                  \cup {[S |-> "URI", page |-> NonePage, y1 |-> 0]}

RECURSIVE AllItems(_)
AllItems(items) ==
    IF items = <<>> THEN {}
    ELSE {Head(items)} \cup AllItems(Head(items).First) \cup AllItems(Tail(items))

OlIdle ==
    /\ ol_pdf = <<>>
    /\ ol_pages = {}
    /\ ol_boxes = <<>>
    /\ ol_outline = NoOutline
    /\ ol_chapters = <<>>
    /\ ol_error = "none"
    /\ ol_pc = "idle"

OlStart ==
    /\ \E n \in 0..MaxOutlineItems :
          \E d \in PreorderDepths(n), t \in [1..n -> TreeTitles],
             g \in [1..n -> ItemTargets] :
             ol_pdf = NestItems([i \in 1..n |-> [depth |-> d[i], title |-> t[i],
                                                 S |-> g[i].S, page |-> g[i].page,
                                                 y1 |-> g[i].y1]],
                                1, 1)
    /\ ol_pages \in (SUBSET OlPdfPages) \ {{}}
    /\ ol_boxes \in [OlPdfPages -> {0, 2}]
    /\ \A p \in OlPdfPages \ ol_pages : ol_boxes[p] = 0
    /\ ol_outline = NoOutline
    /\ ol_chapters = <<>>
    /\ ol_error = "none"
    /\ ol_pc = "start"

\* extract(): catalog.extract_catalog
ExtractCatalog ==
    /\ ol_pc = "start"
    /\ LET r == get_outline(ol_pdf, ol_pages)
       IN /\ ol_error' = r.error
          /\ ol_outline' = r.outline
          /\ ol_pc' = IF r.error = "none" THEN "catalog" ELSE "failed"
    /\ UNCHANGED <<ol_pdf, ol_pages, ol_boxes, ol_chapters>>
    /\ UNCHANGED olOthers

\* extract_paragraphs_chapters: if catalog['outline']: render_chapters(...)
RenderChapters ==
    /\ ol_pc = "catalog"
    /\ IF ~ol_outline.present
       THEN UNCHANGED <<ol_outline, ol_chapters, ol_boxes>>
       ELSE LET n == Len(chapters_sorted_by_page(ol_outline.content, ol_pages))
            IN \E winners \in [1..n -> 0..2] :
                  /\ WinnersPossible(ol_outline.content, ol_pages, ol_boxes, winners)
                  /\ LET r == render_chapters(ol_outline.content, ol_pages,
                                              ol_boxes, winners)
                     IN /\ ol_chapters' = r.chapter_list
                        /\ ol_boxes' = r.boxes
                        /\ ol_outline' = [ol_outline EXCEPT
                                             !.content = write_numbers(@, r.numbers)]
    /\ ol_pc' = "done"
    /\ UNCHANGED <<ol_pdf, ol_pages, ol_error>>
    /\ UNCHANGED olOthers

OlNext == ExtractCatalog \/ RenderChapters

\* the chapters made for the outline item with this id
ChaptersOf(id) == {i \in 1..Len(ol_chapters) : ol_chapters[i].obj = id}

\* C5: the extraction does not fail over an outline item without a destination,
\* with or without children, and when it is over there is exactly one chapter
\* for every outline item whose destination is on an extracted page, a ghost
\* chapter when no text box matched, and none for any other item
C5_OneChapterPerEntry ==
    /\ ol_pc # "failed"
    /\ ol_pc = "done" =>
          \A item \in AllItems(ol_pdf) :
             Cardinality(ChaptersOf(item.id)) =
                 IF item.S = "GoTo" /\ item.page \in ol_pages THEN 1 ELSE 0

(***************************************************************************)
(* extract.extract from the extraction of the elements to the tree under   *)
(* Root and the targets of the links.  The document is the list of its     *)
(* objects in reading order: figures, tables of one cell, text boxes and   *)
(* the headlines the outline items jump to.  An Element object is known by *)
(* its identity, the index of its object in the document; None is 0.       *)
(***************************************************************************)
None == 0

NoLinks == <<>>

\* the values of libpdf_target: None, the ids of a path joined by '/',
\* 'page.N/x:y', 'Out Of extracted pages scope'
NoTarget == [kind |-> "None", path |-> <<>>, page |-> 0, x |-> 0, y |-> 0]
PathTarget(path) == [kind |-> "uid", path |-> path, page |-> 0, x |-> 0, y |-> 0]
PageTarget(page, x, y) == [kind |-> "page", path |-> <<>>, page |-> page, x |-> x, y |-> y]
OutOfScope == [kind |-> "Out Of extracted pages scope", path |-> <<>>,
               page |-> 0, x |-> 0, y |-> 0]

\* Link(start_idx, stop_idx, pos_target): libpdf_target is None
Link(pos_target) == [pos_target |-> pos_target, libpdf_target |-> NoTarget]

\* the ids of the objects of one kind, in the order of the document
OfKind(doc, kind) == SeqFilter([i \in 1..Len(doc) |-> i], LAMBDA i : doc[i].kind = kind)

OnPage(doc, ids, page) == SeqFilter(ids, LAMBDA i : doc[i].page = page)

AsmPages == {1, 2}

\* the outline items of the PDF: one for every headline, in preorder
PdfOutlineOf(doc) ==
    LET chap == OfKind(doc, "chapter")
    IN NestItems([r \in 1..Len(chap) |->
                     [depth |-> doc[chap[r]].depth, title |-> doc[chap[r]].title,
                      S |-> "GoTo", page |-> doc[chap[r]].page,
                      y1 |-> doc[chap[r]].y1]],
                 1, 1)

\* extract_figures: Figure(idx_figure + 1, ...), counted on the page
figure_idx(doc, i) ==
    1 + Cardinality({j \in 1..(i - 1) : doc[j].kind = "figure" /\ doc[j].page = doc[i].page})

\* extract_pdf_table: table_id, render_paragraphs: paragraph_id
running_id(doc, i) ==
    1 + Cardinality({j \in 1..(i - 1) : doc[j].kind = doc[i].kind})

\* the Element made of the i-th object; chapter is its entry of chapter_list
Element(doc, i, chapter) ==
    [type |-> doc[i].kind,
     idx |-> IF doc[i].kind = "figure" THEN figure_idx(doc, i)
             ELSE IF doc[i].kind = "chapter" THEN 0
             ELSE running_id(doc, i),
     title |-> IF doc[i].kind = "chapter" THEN chapter.title ELSE <<>>,
     number |-> IF doc[i].kind = "chapter" THEN chapter.number ELSE <<>>,
     position |-> [page |-> doc[i].page, x0 |-> doc[i].x0, y0 |-> doc[i].y0,
                   x1 |-> doc[i].x1, y1 |-> doc[i].y1],
     links |-> IF doc[i].kind \in {"figure", "paragraph"} THEN doc[i].links ELSE NoLinks,
     cells |-> IF doc[i].kind = "table" THEN <<[links |-> doc[i].links]>> ELSE <<>>,
     b_chapter |-> None,
     content |-> <<>>]

\* extract_figures, extract_pdf_table and extract_paragraphs_chapters:
\* [elems, lists]
extract_elements(doc, outline) ==
    LET chap == OfKind(doc, "chapter")
        pages == {doc[i].page : i \in 1..Len(doc)}
        boxes == [p \in OlPdfPages |-> Len(OnPage(doc, chap, p))]
        rendered == IF outline.present
                    THEN render_chapters(outline.content, pages, boxes,
                                         [r \in 1..Len(chap) |-> 1]).chapter_list
                    ELSE <<>>
        entry(i) == CHOOSE c \in Range(rendered) : chap[c.obj] = i
        chapter_list == [k \in 1..Len(rendered) |-> chap[rendered[k].obj]]
    IN [elems |-> [i \in 1..Len(doc) |->
                      Element(doc, i, IF doc[i].kind = "chapter" /\ outline.present
                                      THEN entry(i) ELSE [title |-> <<>>, number |-> <<>>])],
        lists |-> [figure_list |-> OfKind(doc, "figure"),
                   table_list |-> OfKind(doc, "table"),
                   paragraph_list |-> OfKind(doc, "paragraph"),
                   chapter_list |-> chapter_list,
                   b_positions |->
                       [p \in AsmPages |->
                           OnPage(doc, OfKind(doc, "figure"), p)
                              \o OnPage(doc, OfKind(doc, "table"), p)
                              \o OnPage(doc, chapter_list, p)
                              \o OnPage(doc, OfKind(doc, "paragraph"), p)]]]

HEADLINE_TOLERANCE == 20

\* the height of every page
page_height(page) == 1000

\* list.sort(key=...): stable, by page number and the distance from the top
sort_key_less(elems, a, b) ==
    \/ elems[a].position.page < elems[b].position.page
    \/ /\ elems[a].position.page = elems[b].position.page
       /\ page_height(elems[a].position.page) - elems[a].position.y0
             < page_height(elems[b].position.page) - elems[b].position.y0

merge_all_elements(elems, figure_list, table_list, paragraph_list, chapter_list) ==
    LET element_list == figure_list \o table_list \o paragraph_list \o chapter_list
        F[i \in 0..Len(element_list)] ==
            IF i = 0 THEN <<>>
            \* an element goes behind the elements of the same key before it
            ELSE LET sorted == F[i - 1]
                     k == Cardinality({j \in 1..Len(sorted) :
                                ~sort_key_less(elems, element_list[i], sorted[j])})
                 IN SubSeq(sorted, 1, k) \o <<element_list[i]>>
                       \o SubSeq(sorted, k + 1, Len(sorted))
    IN F[Len(element_list)]

\* filter_out_outline_page(outline_dict): the content of the outline after it
RECURSIVE filter_out_outline_page(_)
filter_out_outline_page(content) ==
    IF content = <<>> THEN <<>>
    ELSE LET outline_chapter == Head(content)
             filtered == [outline_chapter EXCEPT
                             !.content = filter_out_outline_page(@)]
         IN (IF outline_chapter.position.page = NonePage THEN <<>> ELSE <<filtered>>)
               \o filter_out_outline_page(Tail(content))

\* fill_elements_content with counters that run on over the chapters
fill_elements_content_bad(elems, elements_in_outline) ==
    LET F[i \in 0..Len(elements_in_outline)] ==
            IF i = 0
            THEN [error |-> "none", elems |-> elems, index_b_chapter |-> None,
                  id_dict |-> [t \in {"table", "figure", "paragraph", "rect"} |-> 1]]
            ELSE LET st == F[i - 1]
                     element == elements_in_outline[i]
                 IN IF st.error # "none" THEN st
                    ELSE IF st.elems[element].type = "chapter"
                    THEN [st EXCEPT !.index_b_chapter = element]
                    ELSE IF st.index_b_chapter # None
                    THEN [st EXCEPT
                            !.elems[element].idx = st.id_dict[st.elems[element].type],
                            !.elems[element].b_chapter = st.index_b_chapter,
                            !.elems[st.index_b_chapter].content = Append(@, element),
                            !.id_dict[st.elems[element].type] = @ + 1]
                    ELSE [st EXCEPT !.error = "ValueError"]
    IN [error |-> F[Len(elements_in_outline)].error,
        elems |-> F[Len(elements_in_outline)].elems]

\* [error, elems]: idx and b_chapter of the elements, content of the chapters
fill_elements_content(elems, elements_in_outline) ==
    LET F[i \in 0..Len(elements_in_outline)] ==
            IF i = 0
            THEN [error |-> "none", elems |-> elems, index_b_chapter |-> None,
                  id_dict |-> [t \in {"table", "figure", "paragraph", "rect"} |-> 1]]
            ELSE LET st == F[i - 1]
                     element == elements_in_outline[i]
                 IN IF st.error # "none" THEN st
                    ELSE IF st.elems[element].type = "chapter"
                    THEN [st EXCEPT !.index_b_chapter = element,
                                    !.id_dict = [t \in DOMAIN @ |-> 1]]
                    ELSE IF st.index_b_chapter # None
                    THEN [st EXCEPT
                            !.elems[element].idx = st.id_dict[st.elems[element].type],
                            !.elems[element].b_chapter = st.index_b_chapter,
                            !.elems[st.index_b_chapter].content = Append(@, element),
                            !.id_dict[st.elems[element].type] = @ + 1]
                    ELSE [st EXCEPT !.error = "ValueError"]
    IN [error |-> F[Len(elements_in_outline)].error,
        elems |-> F[Len(elements_in_outline)].elems]

\* mapping_chapters: st is [elems, nested_chapters]; the list that is filled is
\* nested_chapters of map_elements_outline when into = None, and the content of
\* the chapter into otherwise
RECURSIVE mapping_chapters(_, _, _, _, _)
mapping_chapters(st, chapters_content_filled, into, outline_content, b_chapter) ==
    IF outline_content = <<>> THEN st
    ELSE LET outline_chapter == Head(outline_content)
             filter_chapter ==
                 SeqFilter(chapters_content_filled,
                           LAMBDA x : /\ st.elems[x].title = outline_chapter.title
                                      /\ st.elems[x].number = outline_chapter.number)
         IN IF filter_chapter = <<>>
            THEN mapping_chapters(st, chapters_content_filled, into,
                                  Tail(outline_content), b_chapter)
            ELSE LET c == filter_chapter[1]
                     set == [st EXCEPT !.elems[c].b_chapter = b_chapter]
                     appended == IF into = None
                                 THEN [set EXCEPT !.nested_chapters = Append(@, c)]
                                 ELSE [set EXCEPT !.elems[into].content = Append(@, c)]
                     deeper == IF outline_chapter.content # <<>>
                               THEN mapping_chapters(appended, chapters_content_filled,
                                                     c, outline_chapter.content, c)
                               ELSE appended
                 IN mapping_chapters(deeper, chapters_content_filled, into,
                                     Tail(outline_content), b_chapter)

\* the index of the first chapter of the list, 0 when it has none
first_chapter(elems, elements) ==
    LET hits == {i \in 1..Len(elements) : elems[elements[i]].type = "chapter"}
    IN IF hits = {} THEN 0 ELSE Min(hits)

\* [error, elems, outline_content, nested_elements, elements_in_outline,
\*  elements_above_outline]
map_elements_outline(elems, element_list, outline_content) ==
    LET content == filter_out_outline_page(outline_content)
        first == content[1].position
        above == IF content # <<>>
                 THEN SeqFilter(element_list,
                        LAMBDA x : \/ elems[x].position.page < first.page
                                   \/ /\ elems[x].position.page = first.page
                                      /\ elems[x].position.y1 > first.y1 + HEADLINE_TOLERANCE)
                 ELSE element_list
        inside == IF content # <<>>
                  THEN SeqFilter(element_list,
                        LAMBDA x : \/ elems[x].position.page > first.page
                                   \/ /\ elems[x].position.page = first.page
                                      /\ elems[x].position.y1 < first.y1 + HEADLINE_TOLERANCE)
                  ELSE <<>>
        \* elements_in_outline must start with chapter
        idx == first_chapter(elems, inside)
        elements_above_outline == IF idx = 0 THEN above
                                  ELSE above \o SubSeq(inside, 1, idx - 1)
        elements_in_outline == IF idx = 0 THEN inside
                               ELSE SubSeq(inside, idx, Len(inside))
        filled == fill_elements_content(elems, elements_in_outline)
        chapters_content_filled ==
            SeqFilter(elements_in_outline, LAMBDA x : elems[x].type = "chapter")
        mapped == mapping_chapters([elems |-> filled.elems, nested_chapters |-> <<>>],
                                   chapters_content_filled, None, content, None)
    IN IF filled.error # "none"
       THEN [error |-> filled.error, elems |-> filled.elems,
             outline_content |-> content, nested_elements |-> <<>>,
             elements_in_outline |-> elements_in_outline,
             elements_above_outline |-> elements_above_outline]
       ELSE [error |-> "none", elems |-> mapped.elems, outline_content |-> content,
             nested_elements |-> elements_above_outline \o mapped.nested_chapters,
             elements_in_outline |-> elements_in_outline,
             elements_above_outline |-> elements_above_outline]

TARGET_COOR_TOLERANCE == 65

\* Position.contains_coord
contains_coord(position, page, x, y) ==
    /\ page = position.page
    /\ position.x1 > x /\ x >= position.x0 - TARGET_COOR_TOLERANCE
    /\ position.y1 + TARGET_COOR_TOLERANCE > y /\ y >= position.y0

\* Element.id_: 'chapter.<number>' and '<type>.<idx>'
id_(element) == [type |-> element.type, idx |-> element.idx, number |-> element.number]

\* nest_explorer(element): the path, <<>> when the recursion does not end
RECURSIVE nest_explorer(_, _, _)
nest_explorer(elems, element, depth) ==
    IF depth > Len(elems) THEN <<>>
    ELSE IF elems[element].b_chapter # None
    THEN LET element_id == nest_explorer(elems, elems[element].b_chapter, depth + 1)
         IN IF element_id = <<>> THEN <<>>
            ELSE Append(element_id, id_(elems[element]))
    ELSE <<id_(elems[element])>>

\* get_elements_page and the elements of it that contain the point
elements_containing(elems, b_positions, pos_target) ==
    SeqFilter(b_positions[pos_target.page],
              LAMBDA e : contains_coord(elems[e].position, pos_target.page,
                                        pos_target.x, pos_target.y))

\* the target, NoTarget when nest_explorer does not end
find_target_id(elems, b_positions, link) ==
    IF link.pos_target.page # NonePage
    THEN LET found == elements_containing(elems, b_positions, link.pos_target)
         IN IF found # <<>>
            THEN LET path == nest_explorer(elems, found[1], 1)
                 IN IF path = <<>> THEN NoTarget ELSE PathTarget(path)
            ELSE PageTarget(link.pos_target.page, link.pos_target.x, link.pos_target.y)
    ELSE OutOfScope

\* link.libpdf_target = target_id, for every link of the list
set_targets(elems, b_positions, links) ==
    [k \in 1..Len(links) |->
        [links[k] EXCEPT !.libpdf_target = find_target_id(elems, b_positions, links[k])]]

\* libpdf_target_explorer(elements, pages_list): the links of the elements on
\* the pages with annotations, the links of the cells when elements are tables
libpdf_target_explorer(elems, elements, annos, b_positions) ==
    [i \in 1..Len(elems) |->
        IF InSeq(i, elements) /\ elems[i].position.page \in annos
        THEN [elems[i] EXCEPT
                 !.links = set_targets(elems, b_positions, @),
                 !.cells = [c \in 1..Len(@) |->
                               [@[c] EXCEPT !.links = set_targets(elems, b_positions, @)]]]
        ELSE elems[i]]

\* all links of an element and of its cells
links_of(element) ==
    LET F[c \in 0..Len(element.cells)] ==
            IF c = 0 THEN element.links ELSE F[c - 1] \o element.cells[c].links
    IN F[Len(element.cells)]

\* catalog['annos']: the pages with link annotations
annos_of(doc) == {doc[i].page : i \in {j \in 1..Len(doc) : doc[j].links # NoLinks}}

\* the top of the i-th object: every object lies under the objects before it
object_y1(i) == 1000 - 100 * i

\* where the one link of a document of n objects on these pages can point to:
\* a page that is not extracted, the blank bottom of page 1, a point within
\* the tolerance left above an object
LinkTargets(n, page_of) ==
    {[page |-> NonePage, x |-> 0, y |-> 0], [page |-> 1, x |-> 100, y |-> 5]}
       \cup {[page |-> page_of[j], x |-> 90, y |-> object_y1(j) + 10] : j \in 1..n}

ObjectKinds == {"figure", "table", "paragraph", "chapter"}

NoLists == [figure_list |-> <<>>, table_list |-> <<>>, paragraph_list |-> <<>>,
            chapter_list |-> <<>>, b_positions |-> [p \in AsmPages |-> <<>>]]

AsmIdle ==
    /\ as_doc = <<>>
    /\ as_outline = NoOutline
    /\ as_elems = <<>>
    /\ as_lists = NoLists
    /\ as_root = <<>>
    /\ as_error = "none"
    /\ as_pc = "idle"

\* a document of up to MaxItems objects on two pages with at most one link;
\* the headlines are the targets of the outline items, in preorder
AsmStart ==
    /\ \E n \in 0..MaxItems :
          \E kind \in [1..n -> ObjectKinds], on_first \in 0..n, holder \in 0..n :
             LET page_of == [i \in 1..n |-> IF i <= on_first THEN 1 ELSE 2]
                 chap == {i \in 1..n : kind[i] = "chapter"}
             IN /\ holder \notin chap
                /\ \E target \in LinkTargets(n, page_of),
                      d \in PreorderDepths(Cardinality(chap)),
                      t \in [1..Cardinality(chap) -> TreeTitles] :
                      /\ holder = 0 => target.page = NonePage
                      /\ as_doc = [i \in 1..n |->
                            LET r == Cardinality({j \in chap : j <= i})
                            IN [kind |-> kind[i], page |-> page_of[i],
                                x0 |-> 100, x1 |-> 500,
                                y0 |-> object_y1(i) - 50, y1 |-> object_y1(i),
                                links |-> IF i = holder THEN <<Link(target)>> ELSE NoLinks,
                                depth |-> IF i \in chap THEN d[r] ELSE 0,
                                title |-> IF i \in chap THEN t[r] ELSE <<>>]]
    /\ as_outline = NoOutline
    /\ as_elems = <<>>
    /\ as_lists = NoLists
    /\ as_root = <<>>
    /\ as_error = "none"
    /\ as_pc = "start"

\* extract(): extract_catalog, extract_figures, extract_pdf_table and
\* extract_paragraphs_chapters
ExtractElements ==
    /\ as_pc = "start"
    /\ LET got == get_outline(PdfOutlineOf(as_doc), AsmPages)
           r == extract_elements(as_doc, got.outline)
       IN IF got.error # "none"
          THEN /\ as_error' = got.error
               /\ as_pc' = "failed"
               /\ UNCHANGED <<as_outline, as_elems, as_lists>>
          ELSE /\ as_outline' = got.outline
               /\ as_elems' = r.elems
               /\ as_lists' = r.lists
               /\ as_pc' = "extracted"
               /\ UNCHANGED as_error
    /\ UNCHANGED <<as_doc, as_root>>
    /\ UNCHANGED asOthers

\* extract(): merge_all_elements, map_elements_outline and Root
MapElements ==
    /\ as_pc = "extracted"
    /\ LET element_list == merge_all_elements(as_elems, as_lists.figure_list,
                               as_lists.table_list, as_lists.paragraph_list,
                               as_lists.chapter_list)
       IN IF as_outline.present
          THEN LET r == map_elements_outline(as_elems, element_list, as_outline.content)
               IN /\ as_error' = r.error
                  /\ as_pc' = IF r.error = "none" THEN "mapped" ELSE "failed"
                  /\ as_elems' = r.elems
                  /\ as_outline' = [as_outline EXCEPT !.content = r.outline_content]
                  /\ as_root' = r.nested_elements
          ELSE /\ as_root' = element_list
               /\ as_pc' = "mapped"
               /\ UNCHANGED <<as_error, as_elems, as_outline>>
    /\ UNCHANGED <<as_doc, as_lists>>
    /\ UNCHANGED asOthers

\* extract(): if catalog['annos']: libpdf_target_explorer of paragraph_list
\* and of table_list
ExploreTargets ==
    /\ as_pc = "mapped"
    /\ LET annos == annos_of(as_doc)
           paragraphs == libpdf_target_explorer(as_elems, as_lists.paragraph_list,
                                                annos, as_lists.b_positions)
           tables == libpdf_target_explorer(paragraphs, as_lists.table_list,
                                            annos, as_lists.b_positions)
           explored == as_lists.paragraph_list \o as_lists.table_list
           unended == \E k \in 1..Len(explored) :
                         /\ as_elems[explored[k]].position.page \in annos
                         /\ \E l \in Range(links_of(tables[explored[k]])) :
                               l.libpdf_target = NoTarget
       IN IF annos = {}
          THEN /\ as_pc' = "done"
               /\ UNCHANGED <<as_elems, as_error>>
          ELSE IF unended
          THEN /\ as_pc' = "failed"
               /\ as_error' = "RecursionError"
               /\ UNCHANGED as_elems
          ELSE /\ as_pc' = "done"
               /\ as_elems' = tables
               /\ UNCHANGED as_error
    /\ UNCHANGED <<as_doc, as_outline, as_lists, as_root>>
    /\ UNCHANGED asOthers

AsmNext == ExtractElements \/ MapElements \/ ExploreTargets

\* the chapters that are in Root.content or in the content of such a chapter
ChaptersInTree ==
    LET chapters_of(content) == {e \in Range(content) : as_elems[e].type = "chapter"}
        F[k \in 0..Len(as_elems)] ==
            IF k = 0 THEN chapters_of(as_root)
            ELSE LET before == F[k - 1]
                 IN before \cup UNION {chapters_of(as_elems[c].content) : c \in before}
    IN F[Len(as_elems)]

\* the idx values of the elements of a type in a content list are 1..N
IdxFromOne(content, type) ==
    LET typed == SeqFilter(content, LAMBDA e : as_elems[e].type = type)
    IN {as_elems[e].idx : e \in Range(typed)} = 1..Len(typed)

\* C1: after the extraction the idx values of the paragraphs, of the tables and
\* of the figures directly in Root.content, and directly in the content of
\* every chapter of the tree, are exactly 1..N, with and without an outline
C1_UniqueIdxPerScope ==
    as_pc = "done" =>
        \A type \in {"paragraph", "table", "figure"} :
            /\ IdxFromOne(as_root, type)
            /\ \A c \in ChaptersInTree : IdxFromOne(as_elems[c].content, type)

\* C2: b_chapter of every element of the tree is the chapter whose content
\* holds it, and None for the elements directly in Root.content, so that uid
\* is the path of the chapters that contain the element
C2_BackReferences ==
    as_pc = "done" =>
        /\ \A e \in Range(as_root) : as_elems[e].b_chapter = None
        /\ \A c \in ChaptersInTree :
              \A e \in Range(as_elems[c].content) : as_elems[e].b_chapter = c

\* the values libpdf_target may have for a link with this pos_target
AllowedTargets(pos_target) ==
    IF pos_target.page = NonePage THEN {OutOfScope}
    ELSE LET found == elements_containing(as_elems, as_lists.b_positions, pos_target)
         IN IF found = <<>>
            THEN {PageTarget(pos_target.page, pos_target.x, pos_target.y)}
            ELSE {PathTarget(nest_explorer(as_elems, e, 1)) : e \in Range(found)}

\* C8: when extract returns and the document has annotations, libpdf_target of
\* every link of every paragraph, table cell and figure is set: to the uid of
\* an element that contains the target point, to 'page.N/x:y' when there is
\* none, to 'Out Of extracted pages scope' when the page is not extracted
C8_EveryLinkHasTarget ==
    (as_pc = "done" /\ annos_of(as_doc) # {}) =>
        \A i \in 1..Len(as_elems) :
            \A l \in Range(links_of(as_elems[i])) :
                /\ l.libpdf_target # NoTarget
                /\ l.libpdf_target \in AllowedTargets(l.pos_target)

\* how often an element is in a content list
CountIn(e, content) == Cardinality({i \in 1..Len(content) : content[i] = e})

\* how often an element is in the tree: in Root.content and in the content of
\* the chapters of the tree
CountInTree(e) ==
    LET in_tree == ChaptersInTree
        F[k \in 0..Len(as_elems)] ==
            IF k = 0 THEN CountIn(e, as_root)
            ELSE F[k - 1] + (IF k \in in_tree THEN CountIn(e, as_elems[k].content) ELSE 0)
    IN F[Len(as_elems)]

\* the Chapter of every entry of this level of the outline is once in the
\* content list made for the level, and so on for the entries below it
RECURSIVE Mirrors(_, _)
Mirrors(outline_content, content) ==
    \A k \in 1..Len(outline_content) :
        LET c == OfKind(as_doc, "chapter")[outline_content[k].obj]
        IN /\ CountIn(c, content) = 1
           /\ Mirrors(outline_content[k].content, as_elems[c].content)

\* C28: after map_elements_outline every Chapter is exactly once in the tree,
\* in the content of the Chapter of its parent entry of the outline, at top
\* level when it has none, also when entries share title and number
C28_TreeMirrorsOutline ==
    (as_pc \in {"mapped", "done"} /\ as_outline.present) =>
        /\ Mirrors(as_outline.content, as_root)
        /\ \A k \in 1..Len(as_lists.chapter_list) :
              CountInTree(as_lists.chapter_list[k]) = 1

(***************************************************************************)
(* core.main called several times in one process.  The margins of the page *)
(* crop are the dict PAGE_CROP_MARGINS of the module parameters; the PDF   *)
(* has one page of 600 x 800 points with text boxes at some of three       *)
(* heights.  The result of a call is the margins stored in File and the    *)
(* paragraphs made of the text boxes that are left.                        *)
(***************************************************************************)
NoMargins == [top |-> 0, right |-> 0, bottom |-> 0, left |-> 0]

NoPageCrop == <<>>

\* the arguments page_crop: None, or the margins top, right, bottom, left
PageCrops == {NoPageCrop} \cup {<<t, 0, b, 0>> : t \in {0, 100}, b \in {0, 100}}

ld_page == [width |-> 600, height |-> 800]

LtTextBoxes == {[x0 |-> 100, x1 |-> 500, y0 |-> y, y1 |-> y + 40] : y \in {730, 400, 30}}

\* core.main: if page_crop: parameters.PAGE_CROP_MARGINS[...] = page_crop[...]
margins_after(margins, page_crop) ==
    IF page_crop # NoPageCrop
    THEN [top |-> page_crop[1], right |-> page_crop[2],
          bottom |-> page_crop[3], left |-> page_crop[4]]
    ELSE margins

\* pdfminer_get_lt_textboxes: the text boxes inside the margins
inside_margins(margins, lt_textbox) ==
    /\ lt_textbox.y1 < ld_page.height - margins.top
    /\ lt_textbox.y0 > margins.bottom
    /\ lt_textbox.x0 > margins.left
    /\ lt_textbox.x1 < ld_page.width - margins.right

\* the text boxes of a page from its top to its bottom
RECURSIVE top_down(_)
top_down(lt_textboxes) ==
    IF lt_textboxes = {} THEN <<>>
    ELSE LET first == CHOOSE a \in lt_textboxes : \A b \in lt_textboxes : a.y1 >= b.y1
         IN <<first>> \o top_down(lt_textboxes \ {first})

\* render_paragraphs: the paragraphs with their paragraph_id
render_paragraphs(lt_textboxes) ==
    [k \in 1..Len(lt_textboxes) |-> [idx |-> k, position |-> lt_textboxes[k]]]

\* what extract() returns under these margins: File and Root.content
extract(pdf, margins) ==
    [file |-> [crop_top |-> margins.top, crop_bottom |-> margins.bottom,
               crop_left |-> margins.left, crop_right |-> margins.right],
     content |-> render_paragraphs(
                     SeqFilter(top_down(pdf), LAMBDA b : inside_margins(margins, b)))]

NoResult == [file |-> [crop_top |-> 0, crop_bottom |-> 0, crop_left |-> 0, crop_right |-> 0],
             content |-> <<>>]

LoadIdle ==
    /\ PAGE_CROP_MARGINS = NoMargins
    /\ ld_pdf = {}
    /\ ld_page_crop = NoPageCrop
    /\ ld_result = NoResult
    /\ ld_calls = -1

\* the process after the import of libpdf
LoadStart ==
    /\ PAGE_CROP_MARGINS = NoMargins
    /\ ld_pdf \in SUBSET LtTextBoxes
    /\ ld_page_crop = NoPageCrop
    /\ ld_result = NoResult
    /\ ld_calls = 0

\* load(pdf, page_crop=...)
Load ==
    /\ ld_calls >= 0
    /\ ld_calls < MaxLoads
    /\ \E page_crop \in PageCrops :
          /\ ld_page_crop' = page_crop
          /\ PAGE_CROP_MARGINS' = margins_after(PAGE_CROP_MARGINS, page_crop)
          /\ ld_result' = extract(ld_pdf, margins_after(PAGE_CROP_MARGINS, page_crop))
    /\ ld_calls' = ld_calls + 1
    /\ UNCHANGED ld_pdf
    /\ UNCHANGED loadOthers

LoadNext == Load

\* C6: what a call of load() returns is what the same call returns when it is
\* the first call of the process, whatever calls were made before it
C6_SameAsFirstCall ==
    ld_calls >= 1 => ld_result = extract(ld_pdf, margins_after(NoMargins, ld_page_crop))

(***************************************************************************)
(* extract.check_and_filter_figures, the Positions extract_figures makes   *)
(* of the figures it returns, and the Position of a ghost chapter.  A      *)
(* figure is the dict of pdfplumber [x0, y0, x1, y1, width, height]; two   *)
(* dicts with the same values are equal for `in` and for list.remove.      *)
(***************************************************************************)
FIGURE_MIN_HEIGHT == 15
FIGURE_MIN_WIDTH == 15
CHAPTER_RECTANGLE_EXTEND == 20

fg_page == [width |-> 600, height |-> 800]

\* list.remove(x): without the first item that is equal to x
remove_first(list, x) ==
    LET hits == {i \in 1..Len(list) : list[i] = x}
    IN IF hits = {} THEN list ELSE RemoveAt(list, Min(hits))

\* the figures that are big enough
big_enough(figures_list) ==
    SeqFilter(figures_list, LAMBDA figure : /\ figure.height > FIGURE_MIN_HEIGHT
                                            /\ figure.width > FIGURE_MIN_WIDTH)

\* a figure that exceeds the page keeps the part of it inside the page
clamp(figure) ==
    [figure EXCEPT !.x0 = Max({@, 0}), !.y0 = Max({@, 0}),
                   !.x1 = Max({@, 0}), !.y1 = Max({@, 0})]

\* itertools.combinations(range(n), 2)
combinations(n) ==
    LET F[i \in 0..n] ==
            IF i = 0 THEN <<>>
            ELSE F[i - 1] \o [k \in 1..(n - i) |-> <<i, i + k>>]
    IN F[n]

\* fig0 covers fig1
inside(fig0, fig1) ==
    /\ fig0.x0 <= fig1.x0 /\ fig0.y0 <= fig1.y0
    /\ fig0.x1 >= fig1.x1 /\ fig0.y1 >= fig1.y1

overlap(fig0, fig1) ==
    ~(\/ fig0.x0 > fig1.x1 \/ fig0.x1 < fig1.x0
      \/ fig0.y0 > fig1.y1 \/ fig0.y1 < fig1.y0)

\* the figures of the list without those inside a figure before them
remove_inside(figures) ==
    LET pairs == combinations(Len(figures))
        F[k \in 0..Len(pairs)] ==
            IF k = 0 THEN figures
            ELSE LET filtered_figures == F[k - 1]
                     fig0 == figures[pairs[k][1]]
                     fig1 == figures[pairs[k][2]]
                 IN IF inside(fig0, fig1) THEN remove_first(filtered_figures, fig1)
                    ELSE filtered_figures
    IN F[Len(pairs)]

\* which of two figures that overlap is removed
loser_bad(fig0, fig1) ==
    IF fig0.width * fig0.height < fig1.width * fig1.height THEN fig0 ELSE fig1

loser(fig0, fig1) ==
    IF fig0.width * fig0.height <= fig1.width * fig1.height THEN fig0 ELSE fig1

\* of two figures that overlap without the first covering the second, the bigger
remove_overlap(figures) ==
    LET pairs == combinations(Len(figures))
        F[k \in 0..Len(pairs)] ==
            IF k = 0 THEN figures
            ELSE LET filtered_figures == F[k - 1]
                     fig0 == figures[pairs[k][1]]
                     fig1 == figures[pairs[k][2]]
                 IN IF overlap(fig0, fig1) /\ ~inside(fig0, fig1)
                    THEN remove_first(filtered_figures, loser(fig0, fig1))
                    ELSE filtered_figures
    IN F[Len(pairs)]

\* the list the loop over the overlapping pairs starts with
before_overlap(figures_list) ==
    LET filtered_figures == big_enough(figures_list)
    IN remove_inside([i \in 1..Len(filtered_figures) |-> clamp(filtered_figures[i])])

check_and_filter_figures(figures_list) == remove_overlap(before_overlap(figures_list))

\* extract_figures: Position(x0, y0, x1, y1, page) of a figure
figure_position(figure) ==
    [x0 |-> figure.x0, y0 |-> figure.y0, x1 |-> figure.x1, y1 |-> figure.y1]

ghost_chapter_position_generator(position, page) ==
    [x0 |-> position.x0,
     y0 |-> IF position.y1 - CHAPTER_RECTANGLE_EXTEND > 0
            THEN position.y1 - CHAPTER_RECTANGLE_EXTEND ELSE 0,
     x1 |-> IF position.x0 + CHAPTER_RECTANGLE_EXTEND < page.width
            THEN position.x0 + CHAPTER_RECTANGLE_EXTEND ELSE page.width,
     y1 |-> position.y1]

\* pdfplumber: x1 = x0 + width and y1 = y0 + height
Figures ==
    {[x0 |-> x, y0 |-> 100, x1 |-> x + w, y1 |-> 100 + h, width |-> w, height |-> h] :
        x \in {-20, 0, 20}, w \in {10, 30, 40}, h \in {10, 30}}

\* jump points: on the page, right of it, under it, in its lower right corner
JumpPoints == {[x0 |-> 100, y1 |-> 500], [x0 |-> 650, y1 |-> 500],
               [x0 |-> 100, y1 |-> -5], [x0 |-> 590, y1 |-> 10]}

NoPosition == [x0 |-> 0, y0 |-> 0, x1 |-> 0, y1 |-> 0]

FigIdle ==
    /\ fg_figures = <<>>
    /\ fg_filtered = <<>>
    /\ fg_positions = <<>>
    /\ fg_jump = [x0 |-> 0, y1 |-> 0]
    /\ fg_ghost = NoPosition
    /\ fg_pc = "idle"

FigStart ==
    /\ \E n \in 0..MaxFigures : fg_figures \in [1..n -> Figures]
    /\ fg_filtered = <<>>
    /\ fg_positions = <<>>
    /\ fg_jump = [x0 |-> 0, y1 |-> 0]
    /\ fg_ghost = NoPosition
    /\ fg_pc = "start"

\* extract_figures, for the page
ExtractFigures ==
    /\ fg_pc = "start"
    /\ fg_filtered' = check_and_filter_figures(fg_figures)
    /\ fg_positions' = [i \in 1..Len(check_and_filter_figures(fg_figures)) |->
                           figure_position(check_and_filter_figures(fg_figures)[i])]
    /\ fg_pc' = "figures"
    /\ UNCHANGED <<fg_figures, fg_jump, fg_ghost>>
    /\ UNCHANGED figOthers

\* render_chapters, for an outline entry chapter_examiner found no text box for
GhostChapter ==
    /\ fg_pc = "figures"
    /\ \E position \in JumpPoints :
          /\ fg_jump' = position
          /\ fg_ghost' = ghost_chapter_position_generator(position, fg_page)
    /\ fg_pc' = "done"
    /\ UNCHANGED <<fg_figures, fg_filtered, fg_positions>>
    /\ UNCHANGED figOthers

FigNext == ExtractFigures \/ GhostChapter

\* C11: every figure check_and_filter_figures returns is at least 15 wide and
\* 15 high on the coordinates it is returned with, and has no negative
\* coordinate, for every list of figures
C11_ReturnedFiguresBigEnough ==
    fg_pc # "start" =>
        \A i \in 1..Len(fg_filtered) :
            /\ fg_filtered[i].x1 - fg_filtered[i].x0 >= FIGURE_MIN_WIDTH
            /\ fg_filtered[i].y1 - fg_filtered[i].y0 >= FIGURE_MIN_HEIGHT
            /\ fg_filtered[i].x0 >= 0 /\ fg_filtered[i].y0 >= 0
            /\ fg_filtered[i].x1 >= 0 /\ fg_filtered[i].y1 >= 0

ValidPosition(position) ==
    /\ position.x0 <= position.x1
    /\ position.y0 <= position.y1
    /\ position.x0 >= 0 - CHAPTER_RECTANGLE_EXTEND
    /\ position.y0 >= 0 - CHAPTER_RECTANGLE_EXTEND
    /\ position.x1 <= fg_page.width + CHAPTER_RECTANGLE_EXTEND
    /\ position.y1 <= fg_page.height + CHAPTER_RECTANGLE_EXTEND

\* C17: every Position has x0 <= x1 and y0 <= y1 and lies within the page up
\* to a tolerance (here 20 points): the Positions of the figures after the
\* clamping and the Position of a ghost chapter, for any jump point
C17_PositionsValid ==
    /\ fg_pc # "start" => \A i \in 1..Len(fg_positions) : ValidPosition(fg_positions[i])
    /\ fg_pc = "done" => ValidPosition(fg_ghost)

\* two figures of the list the overlap loop starts with that overlap, neither
\* covering the other, and have the same area
EqualAreaOverlap(pool, i, j) ==
    /\ i < j
    /\ overlap(pool[i], pool[j])
    /\ ~inside(pool[i], pool[j]) /\ ~inside(pool[j], pool[i])
    /\ pool[i].width * pool[i].height = pool[j].width * pool[j].height

\* C19 as stated: of two overlapping figures of equal area the later one is
\* dropped and the earlier one is kept
C19_TieDropsLater ==
    fg_pc # "start" =>
        LET pool == before_overlap(fg_figures)
        IN \A i, j \in 1..Len(pool) :
              EqualAreaOverlap(pool, i, j) =>
                  /\ ~InSeq(pool[j], fg_filtered)
                  /\ InSeq(pool[i], fg_filtered)

\* C19 amended: of two overlapping figures of equal area the earlier one is
\* dropped; the later one is kept when no third figure is involved
C19_TieDropsEarlier ==
    fg_pc # "start" =>
        LET pool == before_overlap(fg_figures)
        IN \A i, j \in 1..Len(pool) :
              EqualAreaOverlap(pool, i, j) =>
                  /\ ~InSeq(pool[i], fg_filtered)
                  /\ Len(pool) = 2 => InSeq(pool[j], fg_filtered)

C19_Witness ==
    /\ fg_pc = "figures"
    /\ Len(before_overlap(fg_figures)) = 2
    /\ EqualAreaOverlap(before_overlap(fg_figures), 1, 2)
    /\ fg_filtered = <<before_overlap(fg_figures)[2]>>

(***************************************************************************)
(* textbox.extract_lt_textboxes for one page: the boxes of the layout      *)
(* that are inside the page crop margins, outside the tables, figures and  *)
(* rects, and not empty.  A box is [id, x0, y0, x1, y1, text]; text is the *)
(* text of its lines, its last character the last object of its last line. *)
(***************************************************************************)
TABLE_MARGIN == 8

\* x sticks out of the element expanded by TABLE_MARGIN
outside_element(x, ele) ==
    \/ x.x0 < ele.x0 - TABLE_MARGIN
    \/ x.x1 > ele.x1 + TABLE_MARGIN
    \/ x.y0 < ele.y0 - TABLE_MARGIN
    \/ x.y1 > ele.y1 + TABLE_MARGIN

\* merge_list.sort(key=lambda x: x.position.y0, reverse=True)
RECURSIVE tables_figures_rect_merge(_)
tables_figures_rect_merge(elements) ==
    IF elements = {} THEN <<>>
    ELSE LET first == CHOOSE a \in elements : \A b \in elements : a.y0 >= b.y0
         IN <<first>> \o tables_figures_rect_merge(elements \ {first})

remove_lt_textboxes_in_tables_figures_rect(lt_textboxes, elements) ==
    LET figures_tables_list == tables_figures_rect_merge(elements)
        F[k \in 0..Len(figures_tables_list)] ==
            IF k = 0 THEN lt_textboxes
            ELSE SeqFilter(F[k - 1],
                           LAMBDA x : outside_element(x, figures_tables_list[k]))
    IN F[Len(figures_tables_list)]

\* re.match(r'^\s*$', text)
only_whitespace(text) == \A i \in 1..Len(text) : text[i] \in Whitespace \cup {"\n"}

\* the box is appended inside the test of its last character
passed_on(lt_textbox) ==
    /\ ~only_whitespace(lt_textbox.text)
    /\ lt_textbox.text[Len(lt_textbox.text)] = "\n"

\* del lt_textbox._objs[-1]._objs[-1]
without_last(lt_textbox) ==
    [lt_textbox EXCEPT !.text = SubSeq(@, 1, Len(@) - 1)]

extract_lt_textboxes(lt_textboxes, elements) ==
    LET page_lt_textboxes == SeqFilter(lt_textboxes,
                                       LAMBDA b : inside_margins(NoMargins, b))
        filtered == remove_lt_textboxes_in_tables_figures_rect(page_lt_textboxes,
                                                               elements)
        kept == SeqFilter(filtered, passed_on)
    IN [k \in 1..Len(kept) |-> without_last(kept[k])]

\* a table and a figure
TbElements == {[x0 |-> 200, y0 |-> 400, x1 |-> 300, y1 |-> 500],
               [x0 |-> 10, y0 |-> 600, x1 |-> 110, y1 |-> 700]}

\* boxes inside the table, inside its margin, out of its margin, inside the
\* figure; with text, with text without a newline at its end, empty
TbBoxes ==
    {[x0 |-> r[1], x1 |-> r[2], y0 |-> r[3], y1 |-> r[4], text |-> t] :
        r \in {<<210, 290, 410, 440>>, <<195, 290, 410, 440>>,
               <<190, 290, 410, 440>>, <<20, 100, 610, 640>>},
        t \in {<<"a", "\n">>, <<"a">>, <<" ", "\n">>, <<"\n">>}}

TbIdle ==
    /\ tb_lt_textboxes = <<>>
    /\ tb_elements = {}
    /\ tb_filtered = <<>>
    /\ tb_pc = "idle"

TbStart ==
    /\ \E n \in 0..MaxTextBoxes :
          \E b \in [1..n -> TbBoxes] :
             tb_lt_textboxes = [i \in 1..n |->
                [id |-> i, x0 |-> b[i].x0, y0 |-> b[i].y0, x1 |-> b[i].x1,
                 y1 |-> b[i].y1, text |-> b[i].text]]
    /\ tb_elements \in SUBSET TbElements
    /\ tb_filtered = <<>>
    /\ tb_pc = "start"

ExtractLtTextboxes ==
    /\ tb_pc = "start"
    /\ tb_filtered' = extract_lt_textboxes(tb_lt_textboxes, tb_elements)
    /\ tb_pc' = "done"
    /\ UNCHANGED <<tb_lt_textboxes, tb_elements>>
    /\ UNCHANGED tbOthers

TbNext == ExtractLtTextboxes

extract_cells(rows) ==
    LET cells_of_row(idx_row) ==
            LET row == rows[idx_row]
                F[k \in 0..Len(row)] ==
                    IF k = 0 THEN <<>>
                    ELSE IF row[k] THEN Append(F[k - 1], [row |-> idx_row, col |-> k])
                    ELSE F[k - 1]
            IN F[Len(row)]
        G[r \in 0..Len(rows)] ==
            IF r = 0 THEN <<>> ELSE G[r - 1] \o cells_of_row(r)
    IN G[Len(rows)]

\* list.sort(key=...): a stable sort, by insertion
sort_by(list, key(_)) ==
    LET insert(sorted, c) ==
            LET after == {k \in 1..Len(sorted) : key(sorted[k]) > key(c)}
                at == IF after = {} THEN Len(sorted) + 1 ELSE Min(after)
            IN SubSeq(sorted, 1, at - 1) \o <<c>> \o SubSeq(sorted, at, Len(sorted))
        F[k \in 0..Len(list)] ==
            IF k = 0 THEN <<>> ELSE insert(F[k - 1], list[k])
    IN F[Len(list)]

Table_rows(cells) ==
    LET max_row == Max({cells[k].row : k \in 1..Len(cells)})
    IN [row_nr \in 1..max_row |->
            sort_by(SeqFilter(cells, LAMBDA cell : cell.row = row_nr),
                    LAMBDA cell : cell.col)]

Table_columns(cells) ==
    LET max_columns == Max({cells[k].col : k \in 1..Len(cells)})
    IN [col_nr \in 1..max_columns |->
            sort_by(SeqFilter(cells, LAMBDA cell : cell.col = col_nr),
                    LAMBDA cell : cell.row)]

TblIdle ==
    /\ tbl_rows = <<>>
    /\ tbl_cells = <<>>
    /\ tbl_pc = "idle"

\* the table finder gives every row of a table the same number of places
TblStart ==
    /\ \E n \in 1..MaxTableRows : \E c \in 1..MaxTableCols :
          tbl_rows \in [1..n -> [1..c -> BOOLEAN]]
    /\ tbl_cells = <<>>
    /\ tbl_pc = "start"

ExtractCells ==
    /\ tbl_pc = "start"
    /\ tbl_cells' = extract_cells(tbl_rows)
    /\ tbl_pc' = "done"
    /\ UNCHANGED tbl_rows
    /\ UNCHANGED tblOthers

TblNext == ExtractCells

\* C13: in a table with at least one cell the (row, col) pairs of the cells
\* are pairwise distinct and at least 1, and Table.rows[i][j] and
\* Table.columns[j][i] (counted from 0) are the cell with row = i + 1 and
\* col = j + 1, merged cells or not
C13_RowsColumnsIndexCells ==
    (tbl_pc = "done" /\ tbl_cells # <<>>) =>
        /\ \A k \in 1..Len(tbl_cells) : tbl_cells[k].row >= 1 /\ tbl_cells[k].col >= 1
        /\ \A k, l \in 1..Len(tbl_cells) : tbl_cells[k] = tbl_cells[l] => k = l
        /\ LET rows == Table_rows(tbl_cells)
           IN \A i \in 1..Len(rows) : \A j \in 1..Len(rows[i]) :
                 rows[i][j] = [row |-> i, col |-> j]
        /\ LET columns == Table_columns(tbl_cells)
           IN \A j \in 1..Len(columns) : \A i \in 1..Len(columns[j]) :
                 columns[j][i] = [row |-> i, col |-> j]

(***************************************************************************)
(* The page range: core.validate_range (command line only),                *)
(* core.calculate_pages, the page selection of extract.extract and the     *)
(* handling of its exception in core.main.  A page range is a string of    *)
(* the characters RangeChars.                                              *)
(***************************************************************************)
RangeChars == {"0", "1", "2", "3", "-", ","}

\* s.split(sep) for a separator of one character
RECURSIVE split(_, _)
split(s, sep) ==
    LET at == {i \in 1..Len(s) : s[i] = sep}
    IN IF at = {} THEN <<s>>
       ELSE <<SubSeq(s, 1, Min(at) - 1)>> \o split(SubSeq(s, Min(at) + 1, Len(s)), sep)

\* int(s) raises a ValueError unless s is one or more digits
is_int(s) == s # <<>> /\ \A i \in 1..Len(s) : s[i] \in Digits

RECURSIVE int(_)
int(s) ==
    LET digit == CHOOSE d \in 0..9 : DigitChar[d + 1] = s[Len(s)]
    IN IF Len(s) = 1 THEN digit ELSE 10 * int(SubSeq(s, 1, Len(s) - 1)) + digit

\* value.replace('-', ',')
replace_dash(value) == [i \in 1..Len(value) |-> IF value[i] = "-" THEN "," ELSE value[i]]

\* re.match(r"^(\d+-\d+|\d+)(,(\d+-\d+|\d+))*$", value)
range_syntax(value) ==
    LET parts == split(value, ",")
    IN \A k \in 1..Len(parts) :
          LET ends == split(parts[k], "-")
          IN Len(ends) \in {1, 2} /\ \A e \in 1..Len(ends) : is_int(ends[e])

\* TRUE when the value is accepted, FALSE for click.BadParameter
validate_range(value) ==
    /\ range_syntax(value)
    /\ LET numbers == split(replace_dash(value), ",")
       IN \A k \in 1..(Len(numbers) - 1) : int(numbers[k]) < int(numbers[k + 1])

\* [error, pages]: the pages in the order of the ranges
calculate_pages(page_range_string) ==
    LET page_ranges == split(page_range_string, ",")
        ends(page_range) ==
            IF Contains(page_range, <<"-">>)
            THEN <<split(page_range, "-")[1], split(page_range, "-")[2]>>
            ELSE <<page_range, page_range>>
        F[k \in 0..Len(page_ranges)] ==
            IF k = 0 THEN [error |-> "None", pages |-> <<>>]
            ELSE LET before == F[k - 1]
                     e == ends(page_ranges[k])
                 IN IF before.error # "None" THEN before
                    ELSE IF ~is_int(e[1]) \/ ~is_int(e[2])
                         THEN [error |-> "ValueError", pages |-> <<>>]
                    ELSE [error |-> "None",
                          pages |-> before.pages \o
                                    [i \in 1..(int(e[2]) - int(e[1]) + 1) |->
                                        int(e[1]) + i - 1]]
    IN F[Len(page_ranges)]

\* the page selection of extract: [error, pages], pages the page numbers
\* left in pdf.pages; is_none tells that the parameter pages is None and
\* not the list pages
extract_pages(is_none, pages, pdf_pages) ==
    IF is_none \/ pages = <<>>
    THEN [error |-> "None", pages |-> 1..pdf_pages]
    ELSE LET includelist_non_existent ==
                 {pages[k] : k \in {i \in 1..Len(pages) :
                                       pages[i] <= 0 \/ pages[i] > pdf_pages}}
             includelist_existent == Range(pages) \ includelist_non_existent
             left == {page \in 1..pdf_pages : page \in includelist_existent}
         IN IF left = {} THEN [error |-> "LibpdfException", pages |-> {}]
            ELSE [error |-> "None", pages |-> left]

\* core.main: [end, pages]; end is "objects" when the Objects are returned
main(page_range, pdf_pages, cli_usage) ==
    LET calculated == IF page_range # <<>> THEN calculate_pages(page_range)
                      ELSE [error |-> "None", pages |-> <<>>]
        \* sorted(...) leaves the set of the pages as it is
        objects == extract_pages(page_range = <<>>, calculated.pages, pdf_pages)
    IN IF calculated.error # "None" THEN [end |-> calculated.error, pages |-> {}]
       ELSE IF objects.error = "LibpdfException"
            THEN [end |-> IF cli_usage THEN "exit 1" ELSE "LibpdfException",
                  pages |-> {}]
       ELSE [end |-> "objects", pages |-> objects.pages]

NoPgResult == [end |-> "None", cli_usage |-> FALSE, pages |-> {}]

PgIdle ==
    /\ pg_page_range = <<>>
    /\ pg_pdf_pages = 0
    /\ pg_result = NoPgResult
    /\ pg_pc = "idle"

PgStart ==
    /\ \E n \in 0..MaxRangeLen : pg_page_range \in [1..n -> RangeChars]
    /\ pg_pdf_pages \in 1..MaxPdfPages
    /\ pg_result = NoPgResult
    /\ pg_pc = "start"

\* libpdf PDF --page-range ...
MainCli ==
    /\ pg_pc = "start"
    /\ pg_result' =
          IF pg_page_range # <<>> /\ ~validate_range(pg_page_range)
          THEN [end |-> "BadParameter", cli_usage |-> TRUE, pages |-> {}]
          ELSE LET r == main(pg_page_range, pg_pdf_pages, TRUE)
               IN [end |-> r.end, cli_usage |-> TRUE, pages |-> r.pages]
    /\ pg_pc' = "done"
    /\ UNCHANGED <<pg_page_range, pg_pdf_pages>>
    /\ UNCHANGED pgOthers

\* libpdf.load(pdf, page_range=...)
MainApi ==
    /\ pg_pc = "start"
    /\ pg_result' =
          LET r == main(pg_page_range, pg_pdf_pages, FALSE)
          IN [end |-> r.end, cli_usage |-> FALSE, pages |-> r.pages]
    /\ pg_pc' = "done"
    /\ UNCHANGED <<pg_page_range, pg_pdf_pages>>
    /\ UNCHANGED pgOthers

PgNext == MainCli \/ MainApi

\* the page numbers a page range of the documented syntax asks for
requested(page_range) ==
    LET parts == split(page_range, ",")
        first(k) == int(split(parts[k], "-")[1])
        last(k) == int(split(parts[k], "-")[Len(split(parts[k], "-"))])
    IN UNION {first(k)..last(k) : k \in 1..Len(parts)}

\* C14: with a page range the extracted pages are the requested pages that
\* exist in the PDF; when there are none, whatever the range string, the
\* library call raises the library's exception and the command line exits
\* with code 1
C14_RequestedAndExisting ==
    (pg_pc = "done" /\ pg_page_range # <<>> /\ range_syntax(pg_page_range)) =>
        LET wanted == requested(pg_page_range) \cap (1..pg_pdf_pages)
        IN IF wanted = {}
           THEN /\ pg_result.pages = {}
                /\ pg_result.end = IF pg_result.cli_usage THEN "exit 1"
                                   ELSE "LibpdfException"
           ELSE pg_result.end = "objects" /\ pg_result.pages = wanted

(***************************************************************************)
(* catalog.extract_catalog on the keys /A and /Dest of link annotations    *)
(* and outline nodes.  A node is [A, Dest]: A is "None" when the key /A is *)
(* missing and else the type of the action; Dest tells whether the key     *)
(* /Dest is there.  Destinations are explicit ones on an extracted page.   *)
(***************************************************************************)
\* [error, annotation]: annotation the records the annotation number idx adds
update_ann_info(ann_resolved, idx) ==
    IF ann_resolved.A # "None"
    THEN IF ann_resolved.A = "GoTo"
         THEN [error |-> "none", annotation |-> <<[node |-> idx, dest |-> "A"]>>]
         ELSE [error |-> "none", annotation |-> <<>>]
    ELSE IF ann_resolved.Dest
         THEN [error |-> "none", annotation |-> <<[node |-> idx, dest |-> "Dest"]>>]
         ELSE [error |-> "Exception", annotation |-> <<>>]

\* [error, annotation] for the link annotations of one page
annotation_dict_extraction(annotations) ==
    LET F[k \in 0..Len(annotations)] ==
            IF k = 0 THEN [error |-> "none", annotation |-> <<>>]
            ELSE LET before == F[k - 1]
                     r == update_ann_info(annotations[k], k)
                 IN IF before.error # "none" THEN before
                    ELSE [error |-> r.error,
                          annotation |-> before.annotation \o r.annotation]
    IN F[Len(annotations)]

\* resolve_outline on a chain of nodes without children: [error, outline_list]
outline_chain(outline_objs) ==
    LET F[k \in 0..Len(outline_objs)] ==
            IF k = 0 THEN [error |-> "none", outline_list |-> <<>>]
            ELSE LET before == F[k - 1]
                     outline_obj == outline_objs[k]
                 IN IF before.error # "none" THEN before
                    ELSE IF outline_obj.A # "None" /\ outline_obj.Dest
                         THEN [error |-> "ValueError", outline_list |-> before.outline_list]
                    ELSE IF outline_obj.A = "GoTo"
                         THEN [error |-> "none",
                               outline_list |-> Append(before.outline_list,
                                                       [node |-> k, dest |-> "A"])]
                    ELSE IF outline_obj.A # "None" THEN before
                    ELSE IF outline_obj.Dest
                         THEN [error |-> "none",
                               outline_list |-> Append(before.outline_list,
                                                       [node |-> k, dest |-> "Dest"])]
                    ELSE [error |-> "ValueError", outline_list |-> before.outline_list]
    IN F[Len(outline_objs)]

\* [error, annos, outline]: what is stored in catalog; nothing after an exception
extract_catalog(annots, outline_objs, no_annotations) ==
    LET ann_dict == IF no_annotations THEN [error |-> "none", annotation |-> <<>>]
                    ELSE annotation_dict_extraction(annots)
        outline_dict == outline_chain(outline_objs)
    IN IF ann_dict.error # "none"
       THEN [error |-> ann_dict.error, annos |-> <<>>, outline |-> <<>>]
       ELSE IF outline_dict.error # "none"
            THEN [error |-> outline_dict.error, annos |-> <<>>, outline |-> <<>>]
       ELSE [error |-> "none", annos |-> ann_dict.annotation,
             outline |-> outline_dict.outline_list]

CatNodes == [A : {"None", "GoTo", "URI"}, Dest : BOOLEAN]

CtIdle ==
    /\ ct_annots = <<>>
    /\ ct_outline_objs = <<>>
    /\ ct_no_annotations = FALSE
    /\ ct_annos = <<>>
    /\ ct_outline = <<>>
    /\ ct_error = "none"
    /\ ct_pc = "idle"

CtStart ==
    /\ \E n \in 0..MaxCatNodes : ct_annots \in [1..n -> CatNodes]
    /\ \E n \in 0..MaxCatNodes : ct_outline_objs \in [1..n -> CatNodes]
    /\ ct_no_annotations \in BOOLEAN
    /\ ct_annos = <<>>
    /\ ct_outline = <<>>
    /\ ct_error = "none"
    /\ ct_pc = "start"

CatalogOfKeys ==
    /\ ct_pc = "start"
    /\ LET r == extract_catalog(ct_annots, ct_outline_objs, ct_no_annotations)
       IN /\ ct_annos' = r.annos
          /\ ct_outline' = r.outline
          /\ ct_error' = r.error
    /\ ct_pc' = "done"
    /\ UNCHANGED <<ct_annots, ct_outline_objs, ct_no_annotations>>
    /\ UNCHANGED ctOthers

CtNext == CatalogOfKeys

BothKeys(node) == node.A # "None" /\ node.Dest

\* C15: an outline node or a link annotation (when annotations are extracted)
\* with both /A and /Dest ends the catalog extraction with an error, and no
\* outline entry and no annotation record comes from it
C15_BothKeysRejected ==
    ct_pc = "done" =>
        /\ \A k \in 1..Len(ct_outline_objs) :
              BothKeys(ct_outline_objs[k]) =>
                 /\ ct_error # "none"
                 /\ \A e \in 1..Len(ct_outline) : ct_outline[e].node # k
        /\ \A k \in 1..Len(ct_annots) :
              (BothKeys(ct_annots[k]) /\ ~ct_no_annotations) =>
                 /\ ct_error # "none"
                 /\ \A e \in 1..Len(ct_annos) : ct_annos[e].node # k

(***************************************************************************)
(* process.map_elements_outline and fill_elements_content on the elements  *)
(* of up to two pages.  The k-th object of the document is 20 high with    *)
(* its top at object_y1(k).  A Chapter is made from the text box that      *)
(* chapter_examiner matched in the window of a quarter of the page above   *)
(* and below the jump point of its outline entry, or is a ghost chapter at *)
(* the jump point: the jump point is the top of the Chapter moved by an    *)
(* offset.                                                                 *)
(***************************************************************************)
\* jump y1 minus Chapter y1: the headline is 50 or 120 above the jump point,
\* 50 below it, or at it (a ghost chapter is at it always)
JumpOffsets == {-120, -50, 0, 50}

FillKinds == {"chapter", "paragraph", "figure", "table"}

\* the number of the chapters among the first k objects
chapters_upto(kinds, k) == Cardinality({j \in 1..k : kinds[j] = "chapter"})

\* the Elements of the objects; the objects after the first on_page_1 ones are on
\* page 2
FillElement(kinds, on_page_1, k) ==
    [type |-> kinds[k],
     idx |-> IF kinds[k] = "chapter" THEN 0
             ELSE Cardinality({j \in 1..k : kinds[j] = kinds[k]}),
     title |-> IF kinds[k] = "chapter" THEN <<"t">> ELSE <<>>,
     number |-> IF kinds[k] = "chapter" THEN str(chapters_upto(kinds, k)) ELSE <<>>,
     position |-> [page |-> IF k <= on_page_1 THEN 1 ELSE 2, x0 |-> 100,
                   y0 |-> object_y1(k) - 20, x1 |-> 300, y1 |-> object_y1(k)],
     links |-> NoLinks,
     cells |-> <<>>,
     b_chapter |-> None,
     content |-> <<>>]

\* the outline entry of the Chapter k
FillOutline(elems, k, offset, content) ==
    [number |-> elems[k].number, title |-> elems[k].title,
     position |-> [page |-> elems[k].position.page,
                   y1 |-> elems[k].position.y1 + offset],
     content |-> content]

FlIdle ==
    /\ fl_elems = <<>>
    /\ fl_outline = <<>>
    /\ fl_in_outline = <<>>
    /\ fl_above_outline = <<>>
    /\ fl_nested = <<>>
    /\ fl_error = "none"
    /\ fl_pc = "idle"

\* an outline of one level, or all entries but the first under the first
FlStart ==
    /\ \E n \in 1..MaxFillElems : \E kinds \in [1..n -> FillKinds] :
       \E on_page_1 \in 0..n : \E offsets \in [1..n -> JumpOffsets] : \E nested \in BOOLEAN :
          LET elems == [k \in 1..n |-> FillElement(kinds, on_page_1, k)]
              chap == SeqFilter([k \in 1..n |-> k], LAMBDA k : kinds[k] = "chapter")
              flat == [c \in 1..Len(chap) |->
                          FillOutline(elems, chap[c], offsets[chap[c]], <<>>)]
          IN /\ \A k \in 1..n : kinds[k] # "chapter" => offsets[k] = 0
             /\ nested => Len(chap) >= 2
             /\ fl_elems = elems
             /\ fl_outline =
                   IF nested
                   THEN <<FillOutline(elems, chap[1], offsets[chap[1]], Tail(flat))>>
                   ELSE flat
    /\ fl_in_outline = <<>>
    /\ fl_above_outline = <<>>
    /\ fl_nested = <<>>
    /\ fl_error = "none"
    /\ fl_pc = "start"

\* element_list = merge_all_elements(...); map_elements_outline(element_list, outline)
MapElementsOutline ==
    /\ fl_pc = "start"
    /\ LET ids == [k \in 1..Len(fl_elems) |-> k]
           of_type(t) == SeqFilter(ids, LAMBDA k : fl_elems[k].type = t)
           element_list == merge_all_elements(fl_elems, of_type("figure"),
                                              of_type("table"), of_type("paragraph"),
                                              of_type("chapter"))
           r == map_elements_outline(fl_elems, element_list, fl_outline)
       IN /\ fl_elems' = r.elems
          /\ fl_in_outline' = r.elements_in_outline
          /\ fl_above_outline' = r.elements_above_outline
          /\ fl_nested' = r.nested_elements
          /\ fl_error' = r.error
    /\ fl_pc' = "done"
    /\ UNCHANGED fl_outline
    /\ UNCHANGED flOthers

FlNext == MapElementsOutline

\* C21: the split at the first outline entry loses nothing: every element of
\* the sorted list, whatever its page and its y1, is in exactly one of
\* elements_above_outline and elements_in_outline
C21_SplitLosesNothing ==
    fl_pc = "done" =>
        \A k \in 1..Len(fl_elems) :
            /\ InSeq(k, fl_above_outline) \/ InSeq(k, fl_in_outline)
            /\ ~(InSeq(k, fl_above_outline) /\ InSeq(k, fl_in_outline))

\* the place in elements_in_outline of the nearest Chapter before place i, 0
\* when there is none
nearest_chapter(i) ==
    LET before == {j \in 1..(i - 1) : fl_elems[fl_in_outline[j]].type = "chapter"}
    IN IF before = {} THEN 0 ELSE Max(before)

\* the elements of elements_in_outline that follow the Chapter at place c up
\* to the next Chapter, in the order of the list
following(c) ==
    SeqFilter(SubSeq(fl_in_outline, c + 1, Len(fl_in_outline)),
              LAMBDA x : \E i \in (c + 1)..Len(fl_in_outline) :
                            /\ fl_in_outline[i] = x
                            /\ fl_elems[x].type # "chapter"
                            /\ nearest_chapter(i) = c)

\* C20: fill_elements_content gives every element of the in-outline list that
\* is not a Chapter to the nearest Chapter before it in the list: b_chapter is
\* that Chapter, the element is in its content, these elements stand in the
\* content in the order of the list, and idx counts the elements of a type
\* from 1 after every Chapter
C20_FilledIntoNearestChapter ==
    (fl_pc = "done" /\ fl_error = "none") =>
        \A i \in 1..Len(fl_in_outline) :
            LET x == fl_in_outline[i]
                c == nearest_chapter(i)
            IN IF fl_elems[x].type = "chapter"
               THEN SeqFilter(fl_elems[x].content,
                              LAMBDA e : fl_elems[e].type # "chapter") = following(i)
               ELSE /\ c # 0
                    /\ fl_elems[x].b_chapter = fl_in_outline[c]
                    /\ fl_elems[x].idx =
                          1 + Cardinality({j \in (c + 1)..(i - 1) :
                                  fl_elems[fl_in_outline[j]].type = fl_elems[x].type})

\* two Chapters with a paragraph each, the second paragraph counted from 1 again
C20_Witness ==
    /\ fl_pc = "done" /\ fl_error = "none"
    /\ \E i, j \in 1..Len(fl_in_outline) :
          /\ i < j
          /\ fl_elems[fl_in_outline[i]].type = "paragraph"
          /\ fl_elems[fl_in_outline[j]].type = "paragraph"
          /\ nearest_chapter(i) # nearest_chapter(j)
          /\ fl_elems[fl_in_outline[j]].idx = 1
          /\ fl_elems[fl_in_outline[i]].b_chapter # fl_elems[fl_in_outline[j]].b_chapter

\* C16: map_elements_outline never raises the error of the assembly, whatever
\* sorted list of elements and outline the steps before it hand over, with
\* the headline of an entry anywhere in the window around its jump point
C16_NoAssemblyError ==
    fl_pc = "done" => fl_error = "none"

(***************************************************************************)
(* textbox.similarity_referee.  The ratios of SequenceMatcher are counted  *)
(* in tenths: 10 is the ratio 1.0.  With a virtual chapter number the      *)
(* number and the content ratio are None, here 0.  A box is 20 high; it is *)
(* [x0, y1, is_number], is_number telling whether its text matches the     *)
(* pattern of a chapter number.                                            *)
(***************************************************************************)
\* 0.6, in tenths
MIN_OUTLINE_TITLE_TEXTBOX_SIMILARITY == 6

\* chapter['position']['y1']
sr_y_ref == 500

\* max(similarity_lt_textboxes, key=...): the first dict with the highest value
first_max(similarity, key(_)) ==
    similarity[Min({i \in 1..Len(similarity) :
                       \A j \in 1..Len(similarity) : key(similarity[j]) <= key(similarity[i])})]

\* min(winners_idx, key=lambda x: abs(box[x].y1 - y1)): the first nearest index
nearest(winners_idx, lt_textboxes) ==
    LET dist(x) == Abs(lt_textboxes[x].y1 - sr_y_ref)
        nearest_at == Min({k \in 1..Len(winners_idx) :
                              \A l \in 1..Len(winners_idx) :
                                 dist(winners_idx[k]) <= dist(winners_idx[l])})
    IN winners_idx[nearest_at]

\* [i for i, x in enumerate(...) if x == max(..., key=...)], then the choice
\* among several: the dicts are compared as a whole
winner_idx(similarity, lt_textboxes, key(_)) ==
    LET best == first_max(similarity, key)
        winners_idx == SeqFilter([i \in 1..Len(similarity) |-> i],
                                 LAMBDA i : similarity[i] = best)
    IN IF Len(winners_idx) > 1 THEN nearest(winners_idx, lt_textboxes)
       ELSE winners_idx[1]

similarity_referee(similarity, lt_textboxes, virtual) ==
    LET title_winner_idx == winner_idx(similarity, lt_textboxes, LAMBDA x : x.title)
        content_winner_idx == winner_idx(similarity, lt_textboxes, LAMBDA x : x.content)
        number_winner_idx == winner_idx(similarity, lt_textboxes, LAMBDA x : x.number)
        t == lt_textboxes[title_winner_idx]
        potential_chapter_number ==
            SeqFilter([i \in 1..Len(lt_textboxes) |-> i],
                      LAMBDA i : /\ lt_textboxes[i].x0 < t.x0
                                 /\ Abs((lt_textboxes[i].y1 - 20) - (t.y1 - 20))
                                       < CHAPTER_RECTANGLE_EXTEND
                                 /\ Abs(lt_textboxes[i].y1 - t.y1) < CHAPTER_RECTANGLE_EXTEND)
    IN IF virtual
       THEN IF similarity[title_winner_idx].title > MIN_OUTLINE_TITLE_TEXTBOX_SIMILARITY
            THEN <<title_winner_idx>> \o
                 (IF Len(potential_chapter_number) = 1
                     /\ lt_textboxes[potential_chapter_number[1]].is_number
                  THEN <<potential_chapter_number[1]>> ELSE <<>>)
            ELSE <<>>
       ELSE IF similarity[content_winner_idx].content = 10
            THEN <<content_winner_idx>>
       ELSE IF /\ similarity[content_winner_idx].content < similarity[title_winner_idx].title
               /\ number_winner_idx # title_winner_idx
               /\ similarity[number_winner_idx].number > MIN_OUTLINE_TITLE_TEXTBOX_SIMILARITY
               /\ similarity[title_winner_idx].title > MIN_OUTLINE_TITLE_TEXTBOX_SIMILARITY
            THEN <<number_winner_idx, title_winner_idx>>
       ELSE IF /\ title_winner_idx = content_winner_idx
               /\ similarity[content_winner_idx].content
                     >= similarity[title_winner_idx].title
               /\ similarity[content_winner_idx].content
                     > MIN_OUTLINE_TITLE_TEXTBOX_SIMILARITY
            THEN <<content_winner_idx>>
       ELSE <<>>

\* ratios under and over the threshold, and 1.0
Ratios == {5, 8, 10}

SrIdle ==
    /\ sr_similarity = <<>>
    /\ sr_lt_textboxes = <<>>
    /\ sr_virtual = FALSE
    /\ sr_winners = <<>>
    /\ sr_pc = "idle"

\* chapter_examiner calls the referee with one box at least
SrStart ==
    /\ sr_virtual \in BOOLEAN
    /\ \E n \in 1..MaxSimBoxes :
          /\ sr_similarity \in
                [1..n -> IF sr_virtual
                         THEN [title : Ratios, number : {0}, content : {0}]
                         ELSE [title : Ratios, number : Ratios, content : Ratios]]
          /\ sr_lt_textboxes \in
                [1..n -> IF sr_virtual
                         THEN [x0 : {100, 200}, y1 : {480, 510, 530}, is_number : BOOLEAN]
                         ELSE [x0 : {100}, y1 : {480, 510, 530}, is_number : {FALSE}]]
    /\ sr_winners = <<>>
    /\ sr_pc = "start"

SimilarityReferee ==
    /\ sr_pc = "start"
    /\ sr_winners' = similarity_referee(sr_similarity, sr_lt_textboxes, sr_virtual)
    /\ sr_pc' = "done"
    /\ UNCHANGED <<sr_similarity, sr_lt_textboxes, sr_virtual>>
    /\ UNCHANGED srOthers

SrNext == SimilarityReferee

\* the boxes with the highest value that are nearest to the jump point
BestBoxes(key(_)) ==
    LET top == {i \in 1..Len(sr_similarity) :
                   \A j \in 1..Len(sr_similarity) :
                      key(sr_similarity[j]) <= key(sr_similarity[i])}
    IN {i \in top : \A j \in top : Abs(sr_lt_textboxes[i].y1 - sr_y_ref)
                                      <= Abs(sr_lt_textboxes[j].y1 - sr_y_ref)}

\* the boxes the rule elects for the best boxes c, t and n
Elected(c, t, n) ==
    IF sr_similarity[c].content = 10 THEN {c}
    ELSE IF /\ sr_similarity[c].content < sr_similarity[t].title
            /\ n # t
            /\ sr_similarity[n].number > MIN_OUTLINE_TITLE_TEXTBOX_SIMILARITY
            /\ sr_similarity[t].title > MIN_OUTLINE_TITLE_TEXTBOX_SIMILARITY
         THEN {n, t}
    ELSE IF /\ t = c
            /\ sr_similarity[c].content >= sr_similarity[t].title
            /\ sr_similarity[c].content > MIN_OUTLINE_TITLE_TEXTBOX_SIMILARITY
         THEN {c}
    ELSE {}

\* C18: with a chapter number that is not virtual the referee returns the
\* boxes elected from c*, t* and n*, the boxes with the highest content,
\* title and number ratio, where among several boxes with the highest ratio
\* the one with the smallest |y1 - y_ref| is taken
C18_ElectedFromNearestBest ==
    (sr_pc = "done" /\ ~sr_virtual) =>
        \E c \in BestBoxes(LAMBDA x : x.content) :
        \E t \in BestBoxes(LAMBDA x : x.title) :
        \E n \in BestBoxes(LAMBDA x : x.number) :
           Range(sr_winners) = Elected(c, t, n)

(***************************************************************************)
(* extract.check_false_positive_header_footer one call at a time: a call   *)
(* either returns its list or deletes the candidates at the lowest y0 and  *)
(* calls itself with what is left.                                         *)
(***************************************************************************)
\* [recurse, header_low_pos, elements_list]: recurse tells that the call
\* rejected header_low_pos and goes on with a call on elements_list; without
\* it elements_list is returned
phase2_call(pdf, elements_list) ==
    LET keys == page_keys(elements_list)
        start_page_low_pos == keys[1]
        end_page_low_pos == keys[Len(keys)]
        span == end_page_low_pos - start_page_low_pos + 1
        page_breaks == span - Len(keys)
        low_values == {element_low_pos(elements_list, keys[i]) : i \in 1..Len(keys)}
        header_low_pos == Min(low_values)
        continuous_page_list ==
            {keys[i] : i \in {k \in 1..Len(keys) :
                                element_low_pos(elements_list, keys[k]) = header_low_pos}}
        continuous_list_length ==
            Max(continuous_page_list) - Min(continuous_page_list) + 1
        deleted == delete_low_pos(elements_list, 1, header_low_pos)
        again == [recurse |-> deleted # <<>>, header_low_pos |-> header_low_pos,
                  elements_list |-> deleted]
        return(list) == [recurse |-> FALSE, header_low_pos |-> header_low_pos,
                         elements_list |-> list]
    IN IF page_breaks * 100 <= PAGES_MISSING_HEADER_OR_FOOTER_PERCENTAGE * span
       THEN IF Cardinality(low_values) # 1
            THEN IF /\ Cardinality(continuous_page_list) * 100
                          < continuous_list_length * HEADER_OR_FOOTER_CONTINUOUS_PERCENTAGE
                    /\ Cardinality(low_values) > 1
                    /\ Cardinality(low_values) * 100
                          > UNIQUE_HEADER_OR_FOOTER_ELEMENTS_PERCENTAGE * pdf.pages
                 THEN again
                 ELSE return(elements_list)
            ELSE return(pop_single(elements_list))
       ELSE again

P2Idle ==
    /\ p2_pdf = [pages |-> 0, height |-> 0]
    /\ p2_elements_list = <<>>
    /\ p2_rejected = FALSE
    /\ p2_header_low_pos = 0
    /\ p2_pc = "idle"

\* the candidates of phase 1, page by page, one at least
P2Start ==
    /\ p2_pdf \in {[pages |-> n, height |-> 10000000] : n \in 1..MaxHFPages}
    /\ \E n \in 1..MaxHFElements :
          \E pg \in [1..n -> 1..p2_pdf.pages], bx \in [1..n -> HFBoxes] :
              /\ \A i \in 2..n : pg[i - 1] <= pg[i]
              /\ p2_elements_list = HFElementList(n, pg, bx)
    /\ p2_rejected = FALSE
    /\ p2_header_low_pos = 0
    /\ p2_pc = "call"

\* return check_false_positive_header_footer(pdf, elements_list)
Phase2Recurse ==
    /\ p2_pc = "call"
    /\ LET r == phase2_call(p2_pdf, p2_elements_list)
       IN /\ r.recurse
          /\ p2_elements_list' = r.elements_list
          /\ p2_header_low_pos' = r.header_low_pos
    /\ p2_rejected' = TRUE
    /\ UNCHANGED <<p2_pdf, p2_pc>>
    /\ UNCHANGED p2Others

\* return elements_list
Phase2Return ==
    /\ p2_pc = "call"
    /\ LET r == phase2_call(p2_pdf, p2_elements_list)
       IN /\ ~r.recurse
          /\ p2_elements_list' = r.elements_list
    /\ p2_pc' = "returned"
    /\ UNCHANGED <<p2_pdf, p2_rejected, p2_header_low_pos>>
    /\ UNCHANGED p2Others

P2Next == Phase2Recurse \/ Phase2Return

\* C22: when a call of phase 2 rejects the lowest y0, the list it hands to
\* the next call holds no candidate whose y0, rounded to 4 decimals, is that
\* lowest y0, whatever the order of the candidates
C22_RejectedMinimumGone ==
    (p2_pc = "call" /\ p2_rejected) =>
        \A i \in 1..Len(p2_elements_list) :
            Round4(p2_elements_list[i].y0) # p2_header_low_pos

(***************************************************************************)
(* textbox.render_link: the jump target of a Link, from the annotation     *)
(* records that catalog.update_ann_info stores.                            *)
(***************************************************************************)
MaxDestPages == 2

DestNames == {"a", "b"}

DestCoords == {0, 50}

NoDest == [page |-> 0, rect_X |-> 0, rect_Y |-> 0]

\* {'text', 'rect', 'dest'}: an explicit destination
ExplicitRecords ==
    {[keys |-> {"text", "rect", "dest"}, dest |-> d, des_name |-> ""] :
        d \in [page : 1..MaxDestPages, rect_X : DestCoords, rect_Y : DestCoords]}

\* {'text', 'rect', 'des_name'}: a named destination
NamedRecords ==
    {[keys |-> {"text", "rect", "des_name"}, dest |-> NoDest, des_name |-> n] :
        n \in DestNames}

\* the dictionaries get_named_destination can return, None included
DestTables ==
    {[present |-> FALSE, table |-> <<>>]} \cup
    {[present |-> TRUE, table |-> t] :
        t \in UNION {[S -> [Num : 1..MaxDestPages, X : DestCoords, Y : DestCoords]] :
                        S \in SUBSET DestNames}}

\* anno['dest'] as a jump target; a record without the key raises KeyError
explicit_target(anno) ==
    IF "dest" \in anno.keys
    THEN [pos_target |-> [page |-> anno.dest.page, x |-> anno.dest.rect_X,
                          y |-> anno.dest.rect_Y],
          error |-> "none"]
    ELSE [pos_target |-> [page |-> 0, x |-> 0, y |-> 0], error |-> "KeyError"]

\* the position of the jump target in render_link: [pos_target, error]
pos_target_of(anno, dests) ==
    IF "des_name" \in anno.keys
    THEN IF /\ dests.present
            /\ DOMAIN dests.table # {}
            /\ anno.des_name \in DOMAIN dests.table
         THEN [pos_target |-> [page |-> dests.table[anno.des_name].Num,
                               x |-> dests.table[anno.des_name].X,
                               y |-> dests.table[anno.des_name].Y],
               error |-> "none"]
         ELSE explicit_target(anno)
    ELSE explicit_target(anno)

RlIdle ==
    /\ rl_anno = [keys |-> {}, dest |-> NoDest, des_name |-> ""]
    /\ rl_dests = [present |-> FALSE, table |-> <<>>]
    /\ rl_pos_target = [page |-> 0, x |-> 0, y |-> 0]
    /\ rl_error = "none"
    /\ rl_pc = "idle"

RlStart ==
    /\ rl_anno \in ExplicitRecords \cup NamedRecords
    /\ rl_dests \in DestTables
    /\ rl_pos_target = [page |-> 0, x |-> 0, y |-> 0]
    /\ rl_error = "none"
    /\ rl_pc = "start"

\* link = render_link(anno_flags, annos_line[idx_anno], char_counter)
RenderLink ==
    /\ rl_pc = "start"
    /\ LET r == pos_target_of(rl_anno, rl_dests)
       IN /\ rl_pos_target' = r.pos_target
          /\ rl_error' = r.error
    /\ rl_pc' = "done"
    /\ UNCHANGED <<rl_anno, rl_dests>>
    /\ UNCHANGED rlOthers

RlNext == RenderLink

\* the des_name of the record is a key of the named-destination table
Resolves == rl_dests.present /\ rl_anno.des_name \in DOMAIN rl_dests.table

\* C24: render_link never fails for a record of the catalog; pos_target is
\* the named destination when the des_name resolves and the explicit
\* destination of the annotation otherwise
C24_RenderLinkNeverFails ==
    rl_pc = "done" =>
        /\ rl_error = "none"
        /\ rl_pos_target =
             IF "des_name" \in rl_anno.keys /\ Resolves
             THEN [page |-> rl_dests.table[rl_anno.des_name].Num,
                   x |-> rl_dests.table[rl_anno.des_name].X,
                   y |-> rl_dests.table[rl_anno.des_name].Y]
             ELSE [page |-> rl_anno.dest.page, x |-> rl_anno.dest.rect_X,
                   y |-> rl_anno.dest.rect_Y]

(***************************************************************************)
(* catalog.get_named_destination and resolve_name_obj: the name tree of    *)
(* the catalog, flattened level by level.  A node is [keys, Kids, Names]:  *)
(* keys are the keys of its dictionary, Names is the array                 *)
(* <<name, destination, name, destination, ...>>.                          *)
(***************************************************************************)
MaxKids == 2

\* the interpreter gives up a recursion that deep (RecursionError)
RecursionLimit == 5

\* the /Names arrays of the leaves
NameArrays == {<<1, 11>>, <<2, 12>>}

\* nodes without children: a leaf, a node with an empty /Kids array, a node
\* with neither key
NtLeaves == {[keys |-> {"Names"}, Kids |-> <<>>, Names |-> a] : a \in NameArrays}

NtChildless ==
    NtLeaves \cup {[keys |-> {"Kids"}, Kids |-> <<>>, Names |-> <<>>],
                   [keys |-> {}, Kids |-> <<>>, Names |-> <<>>]}

\* the nodes with a /Kids array over a set of nodes
NtOver(S) ==
    {[keys |-> {"Kids"}, Kids |-> k, Names |-> <<>>] :
        k \in UNION {[1..n -> S] : n \in 1..MaxKids}}

NtDepth1 == NtChildless \cup NtOver(NtChildless)

\* the name trees: a single leaf, or a root with /Kids
NameTrees ==
    NtLeaves \cup {[keys |-> {"Kids"}, Kids |-> <<>>, Names |-> <<>>]}
        \cup NtOver(NtDepth1)

\* one call of resolve_name_obj: [returned, temp_list]; returned means
\* 'return name_tree_kids', otherwise the call recurses on temp_list
resolve_name_obj_call(name_tree_kids) ==
    LET F[i \in 0..Len(name_tree_kids)] ==
            IF i = 0 THEN [returned |-> FALSE, temp_list |-> <<>>]
            ELSE LET st == F[i - 1]
                     kid == name_tree_kids[i]
                 IN IF st.returned THEN st
                    ELSE IF "Kids" \in kid.keys /\ kid.Kids # <<>>
                         THEN [st EXCEPT !.temp_list = st.temp_list \o kid.Kids]
                    ELSE IF "Names" \in kid.keys
                         THEN [st EXCEPT !.returned = TRUE]
                    ELSE st
    IN F[Len(name_tree_kids)]

\* named_destination[name] = destination for the pairs of the /Names arrays
\* of name_obj_list: [keys, value, error]
collect_names(name_obj_list) ==
    LET pairs(item_dest, d) ==
            LET G[k \in 0..(Len(item_dest.Names) \div 2)] ==
                    IF k = 0 THEN d
                    ELSE LET g == G[k - 1]
                             name == item_dest.Names[2 * k - 1]
                             dest == item_dest.Names[2 * k]
                         IN [keys |-> g.keys \cup {name},
                             value |-> [n \in g.keys \cup {name} |->
                                           IF n = name THEN dest ELSE g.value[n]]]
            IN G[Len(item_dest.Names) \div 2]
        F[i \in 0..Len(name_obj_list)] ==
            IF i = 0 THEN [keys |-> {}, value |-> <<>>, error |-> "none"]
            ELSE LET st == F[i - 1]
                     item_dest == name_obj_list[i]
                 IN IF st.error # "none" THEN st
                    ELSE IF "Names" \notin item_dest.keys
                         THEN [st EXCEPT !.error = "KeyError"]
                    ELSE LET d == pairs(item_dest, [keys |-> st.keys, value |-> st.value])
                         IN [keys |-> d.keys, value |-> d.value, error |-> "none"]
    IN F[Len(name_obj_list)]

NtIdle ==
    /\ nt_tree = [keys |-> {}, Kids |-> <<>>, Names |-> <<>>]
    /\ nt_level = <<>>
    /\ nt_calls = 0
    /\ nt_named = [keys |-> {}, value |-> <<>>]
    /\ nt_error = "none"
    /\ nt_pc = "idle"

NtStart ==
    /\ nt_tree \in NameTrees
    /\ nt_level = <<>>
    /\ nt_calls = 0
    /\ nt_named = [keys |-> {}, value |-> <<>>]
    /\ nt_error = "none"
    /\ nt_pc = "start"

\* name_obj_list = resolve_name_obj(kids_hierarchy): the first call
ResolveKids ==
    /\ nt_pc = "start"
    /\ "Kids" \in nt_tree.keys
    /\ nt_level' = nt_tree.Kids
    /\ nt_calls' = 1
    /\ nt_pc' = "resolve"
    /\ UNCHANGED <<nt_tree, nt_named, nt_error>>
    /\ UNCHANGED ntOthers

\* name_obj_list = [name_tree]
SingleNode ==
    /\ nt_pc = "start"
    /\ "Kids" \notin nt_tree.keys
    /\ nt_level' = <<nt_tree>>
    /\ nt_pc' = "flat"
    /\ UNCHANGED <<nt_tree, nt_calls, nt_named, nt_error>>
    /\ UNCHANGED ntOthers

\* return name_tree_kids
ResolveReturn ==
    /\ nt_pc = "resolve"
    /\ resolve_name_obj_call(nt_level).returned
    /\ nt_pc' = "flat"
    /\ UNCHANGED <<nt_tree, nt_level, nt_calls, nt_named, nt_error>>
    /\ UNCHANGED ntOthers

\* return resolve_name_obj(temp_list)
ResolveRecurse ==
    /\ nt_pc = "resolve"
    /\ ~resolve_name_obj_call(nt_level).returned
    /\ nt_calls < RecursionLimit
    /\ nt_level' = resolve_name_obj_call(nt_level).temp_list
    /\ nt_calls' = nt_calls + 1
    /\ UNCHANGED <<nt_tree, nt_named, nt_error, nt_pc>>
    /\ UNCHANGED ntOthers

\* the recursion does not end
ResolveOverflow ==
    /\ nt_pc = "resolve"
    /\ ~resolve_name_obj_call(nt_level).returned
    /\ nt_calls = RecursionLimit
    /\ nt_error' = "RecursionError"
    /\ nt_pc' = "error"
    /\ UNCHANGED <<nt_tree, nt_level, nt_calls, nt_named>>
    /\ UNCHANGED ntOthers

\* the loop over name_obj_list
CollectNames ==
    /\ nt_pc = "flat"
    /\ LET r == collect_names(nt_level)
       IN /\ nt_named' = [keys |-> r.keys, value |-> r.value]
          /\ nt_error' = r.error
          /\ nt_pc' = IF r.error = "none" THEN "done" ELSE "error"
    /\ UNCHANGED <<nt_tree, nt_level, nt_calls>>
    /\ UNCHANGED ntOthers

NtNext ==
    \/ ResolveKids
    \/ SingleNode
    \/ ResolveReturn
    \/ ResolveRecurse
    \/ ResolveOverflow
    \/ CollectNames

\* the leaves of a name tree: the nodes that have a /Names array
RECURSIVE leaves_of(_)
leaves_of(node) ==
    (IF "Names" \in node.keys THEN {node} ELSE {})
        \cup UNION {leaves_of(node.Kids[i]) : i \in 1..Len(node.Kids)}

\* the nodes of a name tree
RECURSIVE nodes_of(_)
nodes_of(node) ==
    {node} \cup UNION {nodes_of(node.Kids[i]) : i \in 1..Len(node.Kids)}

\* every node is a leaf with /Names or an intermediate node with kids
WellFormed(tree) ==
    \A node \in nodes_of(tree) :
        \/ node.keys = {"Names"}
        \/ node.keys = {"Kids"} /\ node.Kids # <<>>

\* C25: get_named_destination ends with an entry for every (name,
\* destination) pair of the /Names array of every leaf of the name tree
C25_EveryLeafPairStored ==
    nt_pc \in {"done", "error"} =>
        /\ nt_error = "none"
        /\ \A leaf \in leaves_of(nt_tree) :
              \A k \in 1..(Len(leaf.Names) \div 2) :
                  /\ leaf.Names[2 * k - 1] \in nt_named.keys
                  /\ nt_named.value[leaf.Names[2 * k - 1]] = leaf.Names[2 * k]

\* C30: resolve_name_obj returns after finitely many recursive calls
C30_ResolveReturns == (nt_pc = "resolve") ~> (nt_pc = "flat")

(***************************************************************************)
(* extract() with smart_page_crop and annotations, without an outline:     *)
(* the paragraphs register their Position in page.b_positions when they    *)
(* are made, smart_page_crop_header_footer takes headers and footers out   *)
(* of paragraph_list, libpdf_target_explorer looks the targets up in        *)
(* page.b_positions.                                                       *)
(***************************************************************************)
\* a box in the top area and a box in the middle of the page
TgBoxes ==
    {[y0 |-> 9000000, y1 |-> 9200000], [y0 |-> 4000000, y1 |-> 6000000]}

\* the paragraph as an Element, its Position in points
TgElement(e) ==
    [type |-> "paragraph", idx |-> e.id, number |-> <<>>, b_chapter |-> None,
     position |-> [page |-> e.page, x0 |-> 100, y0 |-> e.y0 \div PointUnit,
                   x1 |-> 500, y1 |-> e.y1 \div PointUnit]]

TgElems == [i \in 1..Len(tg_paragraph_list) |-> TgElement(tg_paragraph_list[i])]

\* page.b_positions of every page: Position.__init__ appends every Position
\* that is made, nothing takes one out
Tg_b_positions ==
    [p \in 1..tg_pdf.pages |->
        SeqFilter([i \in 1..Len(tg_paragraph_list) |-> i],
                  LAMBDA i : tg_paragraph_list[i].page = p)]

TgIdle ==
    /\ tg_pdf = [pages |-> 0, height |-> 0]
    /\ tg_paragraph_list = <<>>
    /\ tg_link = [holder |-> 0, pos_target |-> [page |-> NonePage, x |-> 0, y |-> 0]]
    /\ tg_content = <<>>
    /\ tg_target = NoTarget
    /\ tg_pc = "idle"

\* the paragraphs page by page; the link points into one of them
TgStart ==
    /\ tg_pdf \in {[pages |-> n, height |-> 10000000] : n \in 1..MaxHFPages}
    /\ \E n \in 1..MaxHFElements :
          \E pg \in [1..n -> 1..tg_pdf.pages], bx \in [1..n -> TgBoxes] :
              /\ \A i \in 2..n : pg[i - 1] <= pg[i]
              /\ tg_paragraph_list = HFElementList(n, pg, bx)
              /\ \E holder \in 0..n, to \in 1..n :
                    tg_link = [holder |-> holder,
                               pos_target |-> [page |-> pg[to], x |-> 200,
                                               y |-> bx[to].y0 \div PointUnit + 1]]
    /\ tg_content = <<>>
    /\ tg_target = NoTarget
    /\ tg_pc = "start"

\* paragraph_list = smart_page_crop_header_footer(pdf, paragraph_list) and
\* root = Root(file, pages_list, element_list)
TgSmartPageCrop ==
    /\ tg_pc = "start"
    /\ tg_content' = smart_page_crop_header_footer(tg_pdf, tg_paragraph_list).elements
    /\ tg_pc' = "cropped"
    /\ UNCHANGED <<tg_pdf, tg_paragraph_list, tg_link, tg_target>>
    /\ UNCHANGED tgOthers

\* pro.libpdf_target_explorer(paragraph_list, pages_list): the link of a
\* paragraph that is left gets its target
TgExploreTargets ==
    /\ tg_pc = "cropped"
    /\ tg_target' =
          IF \E k \in 1..Len(tg_content) : tg_content[k].id = tg_link.holder
          THEN find_target_id(TgElems, Tg_b_positions, tg_link)
          ELSE NoTarget
    /\ tg_pc' = "done"
    /\ UNCHANGED <<tg_pdf, tg_paragraph_list, tg_link, tg_content>>
    /\ UNCHANGED tgOthers

TgNext == TgSmartPageCrop \/ TgExploreTargets

\* C26 with the smart page crop: a libpdf_target that is a uid is the uid of
\* an element of Root.content, never of an element that the header/footer
\* detection removed
C26_TargetInRootContent ==
    (tg_pc = "done" /\ tg_target.kind = "uid") =>
        \E k \in 1..Len(tg_content) :
            tg_target.path = <<id_(TgElement(tg_content[k]))>>

(***************************************************************************)
(* extract() of some pages of a PDF with link annotations: the page        *)
(* selection, annotation_dict_extraction, pdfminer_get_lt_textboxes and    *)
(* render_paragraphs.  A page has at most one text box, one line with one  *)
(* glyph, and at most one link annotation, over that glyph; the id of an   *)
(* annotation is the number of the page it lies on.                        *)
(***************************************************************************)
MaxAnnoPages == 3

AnBox == <<[objs |-> <<"LTChar">>, y0 |-> 90, y1 |-> 100]>>

AnAnno(page) == [id |-> page, rect |-> <<0, 90, 10, 100>>]

\* pdf.pages after the page selection: the page numbers, in the order of the PDF
pdf_pages_left(pages, pdf_pages) ==
    LET left == extract_pages(FALSE, pages, pdf_pages).pages
    IN [j \in 1..Cardinality(left) |-> Nth(left, j)]

\* annotation_dict_extraction: annotation_page_map as [keys, annotation]
annotation_page_map(pdf_pages, annots) ==
    LET keys == {idx_page + 1 : idx_page \in {i \in 0..(Len(pdf_pages) - 1) :
                                                pdf_pages[i + 1] \in annots}}
    IN [keys |-> keys,
        annotation |-> [k \in keys |-> <<AnAnno(pdf_pages[k])>>]]

\* pdfminer_get_lt_textboxes: the keys of page_lt_textboxes that have a box
page_lt_textboxes(pdf_pages, boxes) ==
    {page_number - 1 : page_number \in {p \in Range(pdf_pages) : p \in boxes}}

\* render_single_paragraph for the text box of a page: the links
paragraph_links(annos, page_number) ==
    IF annos.keys # {}
    THEN IF page_number \in annos.keys
         THEN extract_linked_chars(AnBox, annos.annotation[page_number]).links
         ELSE <<>>
    ELSE <<>>

\* render_paragraphs: a paragraph for the text box of every page, page by page
render_paragraphs_pages(annos, lt_textboxes) ==
    [j \in 1..Cardinality(lt_textboxes) |->
        LET page_index == Nth(lt_textboxes, j)
            page_number == page_index + 1
        IN [page |-> page_number, links |-> paragraph_links(annos, page_number)]]

AnIdle ==
    /\ an_pdf = 0
    /\ an_pages = <<>>
    /\ an_annots = {}
    /\ an_boxes = {}
    /\ an_annos = [keys |-> {}, annotation |-> <<>>]
    /\ an_paragraphs = <<>>
    /\ an_pc = "idle"

\* the pages asked for exist, in ascending order
AnStart ==
    /\ an_pdf \in 1..MaxAnnoPages
    /\ \E S \in SUBSET (1..an_pdf) : an_pages = [j \in 1..Cardinality(S) |-> Nth(S, j)]
    /\ an_annots \in SUBSET (1..an_pdf)
    /\ an_boxes \in SUBSET (1..an_pdf)
    /\ an_annos = [keys |-> {}, annotation |-> <<>>]
    /\ an_paragraphs = <<>>
    /\ an_pc = "start"

\* the page selection of extract and extract_catalog(pdf, no_annotations)
AnExtractCatalog ==
    /\ an_pc = "start"
    /\ an_annos' = annotation_page_map(pdf_pages_left(an_pages, an_pdf), an_annots)
    /\ an_pc' = "catalog"
    /\ UNCHANGED <<an_pdf, an_pages, an_annots, an_boxes, an_paragraphs>>
    /\ UNCHANGED anOthers

\* extract_paragraphs_chapters: the layout and the paragraphs
AnRenderParagraphs ==
    /\ an_pc = "catalog"
    /\ an_paragraphs' =
          render_paragraphs_pages(an_annos,
              page_lt_textboxes(pdf_pages_left(an_pages, an_pdf), an_boxes))
    /\ an_pc' = "done"
    /\ UNCHANGED <<an_pdf, an_pages, an_annots, an_boxes, an_annos>>
    /\ UNCHANGED anOthers

AnNext == AnExtractCatalog \/ AnRenderParagraphs

\* C29: every annotation is stored under the number of the PDF page it lies
\* on, and a Link is only made in a text box of the page of its annotation
C29_LinkOnPageOfAnnotation ==
    an_pc = "done" =>
        /\ \A k \in an_annos.keys :
              \A i \in 1..Len(an_annos.annotation[k]) : an_annos.annotation[k][i].id = k
        /\ \A j \in 1..Len(an_paragraphs) :
              \A i \in 1..Len(an_paragraphs[j].links) :
                  an_paragraphs[j].links[i].anno = an_paragraphs[j].page

(***************************************************************************)
(* The specifications: one per component, the other components idle.       *)
(***************************************************************************)
NumInit == NumStart /\ HFIdle /\ LinkIdle /\ OlIdle /\ AsmIdle /\ LoadIdle /\ FigIdle /\ TbIdle /\ TblIdle /\ PgIdle /\ CtIdle /\ FlIdle /\ SrIdle /\ P2Idle /\ RlIdle /\ NtIdle /\ TgIdle /\ AnIdle

SpecNum == NumInit /\ [][NumNext]_vars

HFInit == HFStart /\ NumIdle /\ LinkIdle /\ OlIdle /\ AsmIdle /\ LoadIdle /\ FigIdle /\ TbIdle /\ TblIdle /\ PgIdle /\ CtIdle /\ FlIdle /\ SrIdle /\ P2Idle /\ RlIdle /\ NtIdle /\ TgIdle /\ AnIdle

SpecHF == HFInit /\ [][HFNext]_vars

LinkInit == LinkStart /\ NumIdle /\ HFIdle /\ OlIdle /\ AsmIdle /\ LoadIdle /\ FigIdle /\ TbIdle /\ TblIdle /\ PgIdle /\ CtIdle /\ FlIdle /\ SrIdle /\ P2Idle /\ RlIdle /\ NtIdle /\ TgIdle /\ AnIdle

SpecLink == LinkInit /\ [][LinkNext]_vars

OlInit == OlStart /\ NumIdle /\ HFIdle /\ LinkIdle /\ AsmIdle /\ LoadIdle /\ FigIdle /\ TbIdle /\ TblIdle /\ PgIdle /\ CtIdle /\ FlIdle /\ SrIdle /\ P2Idle /\ RlIdle /\ NtIdle /\ TgIdle /\ AnIdle

SpecOutline == OlInit /\ [][OlNext]_vars

AsmInit == AsmStart /\ NumIdle /\ HFIdle /\ LinkIdle /\ OlIdle /\ LoadIdle /\ FigIdle /\ TbIdle /\ TblIdle /\ PgIdle /\ CtIdle /\ FlIdle /\ SrIdle /\ P2Idle /\ RlIdle /\ NtIdle /\ TgIdle /\ AnIdle

SpecAsm == AsmInit /\ [][AsmNext]_vars

LoadInit == LoadStart /\ NumIdle /\ HFIdle /\ LinkIdle /\ OlIdle /\ AsmIdle /\ FigIdle /\ TbIdle /\ TblIdle /\ PgIdle /\ CtIdle /\ FlIdle /\ SrIdle /\ P2Idle /\ RlIdle /\ NtIdle /\ TgIdle /\ AnIdle

SpecLoad == LoadInit /\ [][LoadNext]_vars

FigInit ==
    FigStart /\ NumIdle /\ HFIdle /\ LinkIdle /\ OlIdle /\ AsmIdle /\ LoadIdle /\ TbIdle /\ TblIdle /\ PgIdle /\ CtIdle /\ FlIdle /\ SrIdle /\ P2Idle /\ RlIdle /\ NtIdle /\ TgIdle /\ AnIdle

SpecFig == FigInit /\ [][FigNext]_vars

TbInit ==
    TbStart /\ NumIdle /\ HFIdle /\ LinkIdle /\ OlIdle /\ AsmIdle /\ LoadIdle /\ FigIdle /\ TblIdle /\ PgIdle /\ CtIdle /\ FlIdle /\ SrIdle /\ P2Idle /\ RlIdle /\ NtIdle /\ TgIdle /\ AnIdle

SpecTb == TbInit /\ [][TbNext]_vars

TblInit ==
    TblStart /\ NumIdle /\ HFIdle /\ LinkIdle /\ OlIdle /\ AsmIdle /\ LoadIdle /\ FigIdle
    /\ TbIdle /\ PgIdle /\ CtIdle /\ FlIdle /\ SrIdle /\ P2Idle /\ RlIdle /\ NtIdle /\ TgIdle /\ AnIdle

SpecTbl == TblInit /\ [][TblNext]_vars

PgInit ==
    PgStart /\ NumIdle /\ HFIdle /\ LinkIdle /\ OlIdle /\ AsmIdle /\ LoadIdle /\ FigIdle
    /\ TbIdle /\ TblIdle /\ CtIdle /\ FlIdle /\ SrIdle /\ P2Idle /\ RlIdle /\ NtIdle /\ TgIdle /\ AnIdle

SpecPages == PgInit /\ [][PgNext]_vars

CtInit ==
    CtStart /\ NumIdle /\ HFIdle /\ LinkIdle /\ OlIdle /\ AsmIdle /\ LoadIdle /\ FigIdle
    /\ TbIdle /\ TblIdle /\ PgIdle /\ FlIdle /\ SrIdle /\ P2Idle /\ RlIdle /\ NtIdle /\ TgIdle /\ AnIdle

SpecCat == CtInit /\ [][CtNext]_vars

FlInit ==
    FlStart /\ NumIdle /\ HFIdle /\ LinkIdle /\ OlIdle /\ AsmIdle /\ LoadIdle /\ FigIdle
    /\ TbIdle /\ TblIdle /\ PgIdle /\ CtIdle /\ SrIdle /\ P2Idle /\ RlIdle /\ NtIdle /\ TgIdle /\ AnIdle

SpecFill == FlInit /\ [][FlNext]_vars

SrInit ==
    SrStart /\ NumIdle /\ HFIdle /\ LinkIdle /\ OlIdle /\ AsmIdle /\ LoadIdle /\ FigIdle
    /\ TbIdle /\ TblIdle /\ PgIdle /\ CtIdle /\ FlIdle /\ P2Idle /\ RlIdle /\ NtIdle /\ TgIdle /\ AnIdle

SpecReferee == SrInit /\ [][SrNext]_vars

P2Init ==
    P2Start /\ NumIdle /\ HFIdle /\ LinkIdle /\ OlIdle /\ AsmIdle /\ LoadIdle /\ FigIdle
    /\ TbIdle /\ TblIdle /\ PgIdle /\ CtIdle /\ FlIdle /\ SrIdle /\ RlIdle /\ NtIdle /\ TgIdle /\ AnIdle

SpecPhase2 == P2Init /\ [][P2Next]_vars

RlInit ==
    RlStart /\ NumIdle /\ HFIdle /\ LinkIdle /\ OlIdle /\ AsmIdle /\ LoadIdle
    /\ FigIdle /\ TbIdle /\ TblIdle /\ PgIdle /\ CtIdle /\ FlIdle /\ SrIdle
    /\ P2Idle /\ NtIdle /\ TgIdle /\ AnIdle

SpecRenderLink == RlInit /\ [][RlNext]_vars

NtInit ==
    NtStart /\ NumIdle /\ HFIdle /\ LinkIdle /\ OlIdle /\ AsmIdle /\ LoadIdle
    /\ FigIdle /\ TbIdle /\ TblIdle /\ PgIdle /\ CtIdle /\ FlIdle /\ SrIdle
    /\ P2Idle /\ RlIdle /\ TgIdle /\ AnIdle

SpecNameTree == NtInit /\ [][NtNext]_vars

TgInit ==
    TgStart /\ NumIdle /\ HFIdle /\ LinkIdle /\ OlIdle /\ AsmIdle /\ LoadIdle
    /\ FigIdle /\ TbIdle /\ TblIdle /\ PgIdle /\ CtIdle /\ FlIdle /\ SrIdle
    /\ P2Idle /\ RlIdle /\ NtIdle /\ AnIdle

SpecTargets == TgInit /\ [][TgNext]_vars

AnInit ==
    AnStart /\ NumIdle /\ HFIdle /\ LinkIdle /\ OlIdle /\ AsmIdle /\ LoadIdle
    /\ FigIdle /\ TbIdle /\ TblIdle /\ PgIdle /\ CtIdle /\ FlIdle /\ SrIdle
    /\ P2Idle /\ RlIdle /\ NtIdle /\ TgIdle

SpecAnnoPages == AnInit /\ [][AnNext]_vars

\* every call of the interpreter that can run does run
SpecNameTreeLive == NtInit /\ [][NtNext]_vars /\ WF_vars(NtNext)

====
